---- MODULE Spec2Model ----
(***************************************************************************)
(* A model of the leetloop API's spaced-repetition review queue, its due   *)
(* listings, the recommendation merger and the daily-mission assembler.    *)
(*                                                                         *)
(* The persisted store (Supabase/PostgREST tables) is the state; each HTTP *)
(* handler or service method is one action.  Time is counted in days.      *)
(***************************************************************************)
EXTENDS Integers, Sequences, FiniteSets, TLC

VARIABLES
    queue,      \* rows of review_queue and of the topic review queues
    now,        \* the clock, in days
    nextId,     \* next fresh row id (ids are UUIDs in the code: never reused)
    resp,       \* the last response of a review-queue handler
    skills,     \* skill_scores of the user: tag -> score, or NoScore
    subs,       \* submissions of the user, latest first
    recs,       \* the last response of get_recommendations
    mission,    \* the daily_missions row of the user and date, if any
    mproblems,  \* the mission_problems rows of that mission
    path,       \* the unsolved problems of the current path, in path order
    runs,       \* how many regenerate calls ran generation and saved it
    mresp,      \* the last outcome of generate_mission
    calls,      \* the requests in flight: each one's position and locals
    goals,      \* rows of meta_objectives
    cache,      \* the in-process dashboard cache
    pace        \* the last input and result of calculate_pace_status

qvars == <<queue, now, nextId, resp>>

rvars == <<skills, subs, recs>>

mvars == <<mission, mproblems, path, runs, mresp>>

xvars == <<calls, goals, cache, pace>>

vars == <<queue, now, nextId, resp, skills, subs, recs,
          mission, mproblems, path, runs, mresp, calls, goals, cache, pace>>

----------------------------------------------------------------------------
(* Bounds of the model *)

MaxIds == 2
MaxNow == 1
MaxReviews == 2
MaxChainIds == 1
MaxChainReviews == 6
MaxDueRows == 3
MaxLimit == 2

(* Program constants *)

IntervalCeiling == 30
DefaultPriority == 0
UpsertPriority == 1
InitialInterval == 1
MissionReviewLimit == 5

NoTime == -1
NoId == 0

Users == {"u1", "u2"}
Keys == {"a"}
Reasons == {"r1", "r2"}

RQ == "review_queue"
TQ == "system_design_review_queue"

Min(a, b) == IF a <= b THEN a ELSE b
Max(a, b) == IF a >= b THEN a ELSE b

----------------------------------------------------------------------------
(* The review queue *)

RowsFor(tbl, u, k) ==
    {r \in queue : r.tbl = tbl /\ r.user_id = u /\ r.key = k}

RowById(id) == {r \in queue : r.id = id}

(* A handler's response: op names the handler, flag is the request's       *)
(* success (complete) or whether the key already existed (add, upsert),    *)
(* before is the row's interval_days when the handler started.             *)
Response(op, status, id, flag, before) ==
    [op |-> op, status |-> status, id |-> id, flag |-> flag,
     before |-> before, user |-> "", limit |-> 0, items |-> <<>>]

(* The response of a listing: the request's user, limit and mode (flag),   *)
(* and the rows returned, in order.                                        *)
ListResponse(op, u, limit, flag, items) ==
    [op |-> op, status |-> 200, id |-> NoId, flag |-> flag,
     before |-> 0, user |-> u, limit |-> limit, items |-> items]

NoResponse == Response("none", 0, NoId, FALSE, 0)

IntervalOf(rows) == IF rows = {} THEN 0 ELSE (CHOOSE r \in rows : TRUE).interval_days

RECURSIVE SumCounts(_)
SumCounts(rows) ==
    IF rows = {} THEN 0
    ELSE LET r == CHOOSE x \in rows : TRUE
         IN r.review_count + SumCounts(rows \ {r})

(* The interval model of the complete_review RPC: doubling up to the       *)
(* ceiling on success (a non-positive interval is floored at 1 first),     *)
(* reset to 1 on failure.                                                  *)
AdvanceUncapped(success, interval) ==
    IF success THEN Max(interval, 1) * 2 ELSE 1

Advance(success, interval) ==
    IF success THEN Min(Max(interval, 1) * 2, IntervalCeiling) ELSE 1

(* The mutant of the RPC: the update without its WHERE clause *)
CompleteRpcEveryRow(rows, id, success) ==
    {[r EXCEPT !.interval_days = Advance(success, r.interval_days),
               !.next_review = now + Advance(success, r.interval_days),
               !.review_count = r.review_count + 1,
               !.last_reviewed = now] : r \in rows}

(* UPDATE ... WHERE id = p_review_id of the complete_*_review RPCs *)
CompleteRpc(rows, id, success) ==
    {IF r.id = id
        THEN [r EXCEPT !.interval_days = Advance(success, r.interval_days),
                       !.next_review = now + Advance(success, r.interval_days),
                       !.review_count = r.review_count + 1,
                       !.last_reviewed = now]
        ELSE r : r \in rows}

(* The unique key (user_id, problem_slug) of review_queue: a second insert *)
(* of the same key is refused by the store.                                *)
UniqueViolation(tbl, u, k) == RowsFor(tbl, u, k) # {}

NewRow(tbl, u, k, reason, priority) ==
    [id |-> nextId, tbl |-> tbl, user_id |-> u, key |-> k, reason |-> reason,
     priority |-> priority, next_review |-> now,
     interval_days |-> InitialInterval, review_count |-> 0,
     last_reviewed |-> NoTime]

(* POST /reviews/{user_id}/add *)
AddToReviewQueue(u, slug, reason) ==
    /\ IF UniqueViolation(RQ, u, slug)
          THEN /\ resp' = Response("add", 500, NoId, TRUE, IntervalOf(RowsFor(RQ, u, slug)))
               /\ UNCHANGED <<queue, nextId>>
          ELSE /\ queue' = queue \cup {NewRow(RQ, u, slug, reason, DefaultPriority)}
               /\ nextId' = nextId + 1
               /\ resp' = Response("add", 200, nextId, FALSE, 0)
    /\ UNCHANGED now

(* upsert(payload, on_conflict="user_id,topic"): PostgREST merges          *)
(* duplicates, setting every column of the payload on the existing row.    *)
UpsertInsertAlways(rows, u, topic, reason) ==
    rows \cup {NewRow(TQ, u, topic, reason, UpsertPriority)}

UpsertRows(rows, u, topic, reason) ==
    IF RowsFor(TQ, u, topic) # {}
       THEN {IF r.tbl = TQ /\ r.user_id = u /\ r.key = topic
                THEN [r EXCEPT !.reason = reason,
                               !.priority = UpsertPriority,
                               !.interval_days = InitialInterval]
                ELSE r : r \in rows}
       ELSE rows \cup {NewRow(TQ, u, topic, reason, UpsertPriority)}

(* The review-queue step of complete_session / submit_attempt for one      *)
(* review topic of a low-scoring grade.                                    *)
UpsertReviewTopic(u, topic, reason) ==
    /\ queue' = UpsertRows(queue, u, topic, reason)
    /\ nextId' = IF RowsFor(TQ, u, topic) # {} THEN nextId ELSE nextId + 1
    /\ resp' = Response("upsert", 200,
                        IF RowsFor(TQ, u, topic) # {}
                           THEN (CHOOSE r \in RowsFor(TQ, u, topic) : TRUE).id
                           ELSE nextId,
                        RowsFor(TQ, u, topic) # {},
                        IntervalOf(RowsFor(TQ, u, topic)))
    /\ UNCHANGED now

CompleteReviewNegated(id, success) ==
    /\ queue' = CompleteRpc(queue, id, ~success)
    /\ resp' = Response("complete", IF RowById(id) = {} THEN 500 ELSE 200,
                        id, success, IntervalOf(RowById(id)))
    /\ UNCHANGED <<now, nextId>>

(* POST /reviews/{review_id}/complete: the RPC, then the row read back     *)
(* with .single(), which raises when no row matches.                       *)
CompleteReview(id, success) ==
    /\ queue' = CompleteRpc(queue, id, success)
    /\ resp' = Response("complete", IF RowById(id) = {} THEN 500 ELSE 200,
                        id, success, IntervalOf(RowById(id)))
    /\ UNCHANGED <<now, nextId>>

(* DELETE /reviews/{review_id} *)
DeleteReview(id) ==
    /\ queue' = {r \in queue : r.id # id}
    /\ resp' = Response("delete", 200, id, FALSE, IntervalOf(RowById(id)))
    /\ UNCHANGED <<now, nextId>>

Tick ==
    /\ now' = now + 1
    /\ UNCHANGED <<queue, nextId, resp>>

NoRecs == [limit |-> 0, reviews |-> <<>>, items |-> <<>>]

(* The store of the recommendation inputs, left empty and untouched by the *)
(* review-queue specifications                                             *)
NoSubs == [recent |-> <<>>, solved |-> 0]

RecIdle ==
    /\ skills = {}
    /\ subs = NoSubs
    /\ recs = NoRecs

NoMission == [present |-> FALSE, regenerated_count |-> 0, daily_objective |-> ""]

NoObject == [daily_objective |-> ""]

NoRuns == [regenerate |-> 0, existing |-> 0]

NoMissionResponse ==
    [tick |-> 0, op |-> "none", status |-> 0, ran |-> FALSE, outcome |-> "",
     gemini_response |-> NoObject, problems |-> <<>>, can_regenerate |-> FALSE,
     regenerated_count |-> 0, daily_objective |-> ""]

(* No mission, no path and no request: the state of the mission store in   *)
(* the specifications of the review queue and of the recommendations       *)
NoCalls == <<>>

NoCache == <<>>

NoPace == <<>>

(* No request in flight, no goal, an empty cache: the state of the rest of *)
(* the store in the specifications that do not touch it                    *)
ExtraIdle ==
    /\ calls = NoCalls
    /\ goals = {}
    /\ cache = NoCache
    /\ pace = NoPace

MissionIdle ==
    /\ mission = NoMission
    /\ mproblems = {}
    /\ path = <<>>
    /\ runs = NoRuns
    /\ mresp = NoMissionResponse

Init ==
    /\ queue = {}
    /\ now = 0
    /\ nextId = 1
    /\ resp = NoResponse
    /\ RecIdle
    /\ MissionIdle
    /\ ExtraIdle

(* The handlers, with the model's bounds on fresh ids, completions and the *)
(* clock.                                                                  *)
QueueNext(maxIds, maxReviews) ==
    \/ \E u \in Users, k \in Keys, reason \in Reasons :
          /\ UniqueViolation(RQ, u, k) \/ nextId <= maxIds
          /\ AddToReviewQueue(u, k, reason)
    \/ \E u \in Users, k \in Keys, reason \in Reasons :
          /\ RowsFor(TQ, u, k) # {} \/ nextId <= maxIds
          /\ UpsertReviewTopic(u, k, reason)
    \/ \E id \in 1..maxIds, success \in BOOLEAN :
          /\ RowById(id) # {} => SumCounts(queue) < maxReviews
          /\ CompleteReview(id, success)
    \/ \E id \in 1..maxIds : DeleteReview(id)

Next ==
    /\ \/ QueueNext(MaxIds, MaxReviews)
       \/ now < MaxNow /\ Tick
    /\ UNCHANGED rvars
    /\ UNCHANGED mvars
    /\ UNCHANGED xvars

Spec == Init /\ [][Next]_vars

(* Long chains of completions on few items *)
NextInterval ==
    /\ QueueNext(MaxChainIds, MaxChainReviews)
    /\ UNCHANGED rvars
    /\ UNCHANGED mvars
    /\ UNCHANGED xvars

SpecInterval == Init /\ [][NextInterval]_vars

----------------------------------------------------------------------------
(* The due listings *)

SeqToSet(s) == {s[i] : i \in 1..Len(s)}

(* The sequences that list every row of rows once *)
Perms(rows) ==
    {s \in [1..Cardinality(rows) -> rows] :
        \A i, j \in 1..Cardinality(rows) : i # j => s[i] # s[j]}

(* ORDER BY priority DESC, next_review ASC *)
ByPriorityThenNextReview(r1, r2) ==
    \/ r1.priority > r2.priority
    \/ r1.priority = r2.priority /\ r1.next_review <= r2.next_review

(* ORDER BY priority DESC *)
ByPriority(r1, r2) == r1.priority >= r2.priority

(* ORDER BY score *)
ByScore(r1, r2) == r1.score <= r2.score

(* ORDER BY priority *)
ByMissionPriority(r1, r2) == r1.priority <= r2.priority

InOrder(order, r1, r2) ==
    CASE order = "priority.desc,next_review" -> ByPriorityThenNextReview(r1, r2)
      [] order = "priority.desc" -> ByPriority(r1, r2)
      [] order = "score" -> ByScore(r1, r2)
      [] order = "priority" -> ByMissionPriority(r1, r2)

(* The results the store may give for ORDER BY ... LIMIT limit: rows that  *)
(* the order does not separate come in any order.                          *)
OrderLimit(rows, order, limit) ==
    {SubSeq(s, 1, Min(limit, Len(s))) :
        s \in {p \in Perms(rows) :
                 \A i, j \in 1..Len(p) : i < j => InOrder(order, p[i], p[j])}}

UserRows(u) == {r \in queue : r.tbl = RQ /\ r.user_id = u}

DueRows(u) == {r \in UserRows(u) : r.next_review <= now}

(* The get_due_reviews RPC *)
GetDueRpc(u, limit) == OrderLimit(DueRows(u), "priority.desc,next_review", limit)

(* reviews.py: the include_future query *)
AllReviewsQueryDueOnly(u, limit) ==
    OrderLimit(DueRows(u), "priority.desc,next_review", limit)

AllReviewsQuery(u, limit) ==
    OrderLimit(UserRows(u), "priority.desc,next_review", limit)

(* recommendation_engine.py: the direct query used when the RPC fails *)
DueFallbackQuery(u, limit) ==
    OrderLimit(DueRows(u), "priority.desc,next_review", limit)

(* mission_generator.py: the review-queue query of the mission context *)
MissionReviewQuery(u) == OrderLimit(DueRows(u), "priority.desc", MissionReviewLimit)

(* GET /reviews/{user_id} *)
GetDueReviews(u, limit, include_future) ==
    /\ \E items \in (IF include_future THEN AllReviewsQuery(u, limit)
                                       ELSE GetDueRpc(u, limit)) :
          resp' = ListResponse("due", u, limit, include_future, items)
    /\ UNCHANGED <<queue, now, nextId>>

(* RecommendationEngine._get_due_reviews *)
EngineGetDueReviews(u, limit, rpc_fails) ==
    /\ \E items \in (IF rpc_fails THEN DueFallbackQuery(u, limit)
                                  ELSE GetDueRpc(u, limit)) :
          resp' = ListResponse("engine_due", u, limit, rpc_fails, items)
    /\ UNCHANGED <<queue, now, nextId>>

(* MissionGenerator._build_gemini_context: the review-queue read *)
MissionGetDueReviews(u) ==
    /\ \E items \in MissionReviewQuery(u) :
          resp' = ListResponse("mission_due", u, MissionReviewLimit, FALSE, items)
    /\ UNCHANGED <<queue, now, nextId>>

(* The stored queues the listings are applied to: up to MaxDueRows rows of *)
(* review_queue, each of user u1 with priority 1 or 5 or of user u2 with   *)
(* priority 1, and due before now, due now, or due later (after a          *)
(* completion).  Rows are                                                  *)
(* numbered in the order of their kind, which loses no queue: ids play no  *)
(* part in a listing.                                                      *)
DueNow == 1
DueKinds == 3 * 3
DueKeyNames == <<"a", "b", "c", "d", "e">>

DueRow(i, kind) ==
    LET t == kind % 3
    IN [id |-> i, tbl |-> RQ,
        user_id |-> IF kind \div 6 = 0 THEN "u1" ELSE "u2",
        key |-> DueKeyNames[i], reason |-> "r1",
        priority |-> IF (kind \div 3) % 2 = 0 THEN 1 ELSE 5,
        next_review |-> t,
        interval_days |-> InitialInterval,
        review_count |-> IF t > DueNow THEN 1 ELSE 0,
        last_reviewed |-> IF t > DueNow THEN t - 1 ELSE NoTime]

DueTables ==
    UNION {{{DueRow(i, f[i]) : i \in 1..n} :
              f \in {g \in [1..n -> 0..(DueKinds - 1)] :
                       \A i, j \in 1..n : i < j => g[i] <= g[j]}} :
           n \in 0..MaxDueRows}

InitDue ==
    /\ queue \in DueTables
    /\ now = DueNow
    /\ nextId = MaxDueRows + 1
    /\ resp = NoResponse
    /\ RecIdle
    /\ MissionIdle
    /\ ExtraIdle

NextDue ==
    /\ \/ \E u \in Users, limit \in 0..MaxLimit, include_future \in BOOLEAN :
             GetDueReviews(u, limit, include_future)
       \/ \E u \in Users, limit \in 0..MaxLimit, rpc_fails \in BOOLEAN :
             EngineGetDueReviews(u, limit, rpc_fails)
       \/ \E u \in Users : MissionGetDueReviews(u)
    /\ UNCHANGED rvars
    /\ UNCHANGED mvars
    /\ UNCHANGED xvars

SpecDue == InitDue /\ [][NextDue]_vars

----------------------------------------------------------------------------
(* Recommendations: recommendation_engine.py *)

(* subs.recent: the user's latest submissions, latest first, each with its *)
(* problem_slug, status, difficulty and tags.  subs.solved: the older      *)
(* submissions, all Accepted, of which only the number per difficulty      *)
(* reaches a query: level 1 is EasyTarget Easy ones, level 2 adds          *)
(* MediumTarget Medium ones.                                               *)
WeakScore == 70
WeakSkillLimit == 3
ReviewBase == 100
WeakBase == 70
ProgressionPriority == 30
EasyTarget == 10
MediumTarget == 5

Take(s, n) == SubSeq(s, 1, Min(n, Len(s)))

HasSlug(recommendations, slug) ==
    \E i \in 1..Len(recommendations) : recommendations[i].problem_slug = slug

ReviewRecommendation(review) ==
    [problem_slug |-> review.key,
     priority |-> ReviewBase - review.interval_days,
     source |-> "review_queue"]

RECURSIVE ReviewRecommendations(_)
ReviewRecommendations(reviews) ==
    IF reviews = <<>> THEN <<>>
    ELSE <<ReviewRecommendation(Head(reviews))>>
             \o ReviewRecommendations(Tail(reviews))

(* skill_scores .order("score").limit(3) *)
WeakSkillsQuery == OrderLimit(skills, "score", WeakSkillLimit)

FailedWithTag(sub, tag) == sub.status # "Accepted" /\ tag \in sub.tags

(* submissions .neq(status, Accepted).contains(tags, [tag])                *)
(* .order(submitted_at, desc).limit(1)                                     *)
FailedQuery(tag) == Take(SelectSeq(subs.recent, LAMBDA sub : FailedWithTag(sub, tag)), 1)

(* The mutant of the weak-skill priority: counted down from the base of    *)
(* the reviews                                                             *)
WeakRecommendationFromReviewBase(problem, skill) ==
    [problem_slug |-> problem.problem_slug,
     priority |-> ReviewBase - skill.score,
     source |-> "weak_skill"]

WeakRecommendation(problem, skill) ==
    [problem_slug |-> problem.problem_slug,
     priority |-> WeakBase - skill.score,
     source |-> "weak_skill"]

NotWeakEnough(skill) == skill.score >= WeakScore

RECURSIVE WeakLoop(_, _, _, _)
(* The loop of _get_weak_skill_problems over weak_skills from index i on,  *)
(* recommendations being the function's own list                           *)
WeakLoop(weak_skills, i, recommendations, limit) ==
    IF i > Len(weak_skills) THEN recommendations
    ELSE IF NotWeakEnough(weak_skills[i])
         THEN WeakLoop(weak_skills, i + 1, recommendations, limit)
         ELSE LET failed == FailedQuery(weak_skills[i].tag)
                  appended ==
                      IF /\ failed # <<>>
                         /\ ~HasSlug(recommendations, failed[1].problem_slug)
                      THEN Append(recommendations,
                                  WeakRecommendation(failed[1], weak_skills[i]))
                      ELSE recommendations
              IN IF Len(appended) >= limit THEN appended
                 ELSE WeakLoop(weak_skills, i + 1, appended, limit)

GetWeakSkillProblems(weak_skills, limit) ==
    IF weak_skills = <<>> THEN <<>>
    ELSE WeakLoop(weak_skills, 1, <<>>, limit)

IsDifficulty(sub, diff) == sub.difficulty = diff

IsAcceptedAt(sub, diff) == sub.difficulty = diff /\ sub.status = "Accepted"

FailedAt(sub, diff) == sub.difficulty = diff /\ sub.status # "Accepted"

SolvedBefore(diff) ==
    IF diff = "Easy" THEN (IF subs.solved >= 1 THEN EasyTarget ELSE 0)
    ELSE IF diff = "Medium" THEN (IF subs.solved >= 2 THEN MediumTarget ELSE 0)
    ELSE 0

Stats(diff) ==
    [accepted |-> SolvedBefore(diff)
                    + Len(SelectSeq(subs.recent,
                                 LAMBDA sub : IsAcceptedAt(sub, diff))),
     total |-> SolvedBefore(diff)
                    + Len(SelectSeq(subs.recent,
                                 LAMBDA sub : IsDifficulty(sub, diff)))]

(* easy_rate < 0.7 and medium_rate < 0.5, the rate of an empty total       *)
(* being 0                                                                 *)
DetermineProgressionDifficulty(easy, medium) ==
    IF (easy.total = 0 \/ 10 * easy.accepted < 7 * easy.total)
          \/ easy.total < EasyTarget
    THEN "Easy"
    ELSE IF (medium.total = 0 \/ 2 * medium.accepted < medium.total)
               \/ medium.total < MediumTarget
         THEN "Medium"
         ELSE "Hard"

ProgressionRecommendation(problem) ==
    [problem_slug |-> problem.problem_slug,
     priority |-> ProgressionPriority,
     source |-> "progression"]

RECURSIVE ProgressionLoop(_, _)
(* The loop over attempted.data with its seen_slugs *)
ProgressionLoop(attempted, seen_slugs) ==
    IF attempted = <<>> THEN <<>>
    ELSE IF Head(attempted).problem_slug \in seen_slugs
         THEN ProgressionLoop(Tail(attempted), seen_slugs)
         ELSE <<ProgressionRecommendation(Head(attempted))>>
                  \o ProgressionLoop(Tail(attempted),
                         seen_slugs \cup {Head(attempted).problem_slug})

GetProgressionProblems(limit) ==
    LET recommended_diff ==
            DetermineProgressionDifficulty(Stats("Easy"), Stats("Medium"))
        attempted ==
            Take(SelectSeq(subs.recent,
                           LAMBDA sub : FailedAt(sub, recommended_diff)),
                 limit)
    IN ProgressionLoop(attempted, {})

RECURSIVE InsertByPriorityStrict(_, _)
(* The mutant of the sort: x put before the elements of equal priority *)
InsertByPriorityStrict(sorted, x) ==
    IF sorted = <<>> THEN <<x>>
    ELSE IF Head(sorted).priority > x.priority
         THEN <<Head(sorted)>> \o InsertByPriorityStrict(Tail(sorted), x)
         ELSE <<x>> \o sorted

RECURSIVE InsertByPriority(_, _)
(* x put behind every element of the sorted list whose priority is not     *)
(* lower                                                                   *)
InsertByPriority(sorted, x) ==
    IF sorted = <<>> THEN <<x>>
    ELSE IF Head(sorted).priority >= x.priority
         THEN <<Head(sorted)>> \o InsertByPriority(Tail(sorted), x)
         ELSE <<x>> \o sorted

RECURSIVE SortByPriority(_, _)
(* list.sort(key=priority, reverse=True): stable *)
SortByPriority(sorted, rest) ==
    IF rest = <<>> THEN sorted
    ELSE SortByPriority(InsertByPriority(sorted, Head(rest)), Tail(rest))

(* RecommendationEngine.get_recommendations, given the rows returned by    *)
(* _get_due_reviews and by the skill_scores query                          *)
Recommendations(reviews, weak_skills, limit) ==
    LET from_reviews == ReviewRecommendations(reviews)
        with_weak ==
            IF Len(from_reviews) < limit
            THEN from_reviews
                     \o GetWeakSkillProblems(weak_skills,
                                             limit - Len(from_reviews))
            ELSE from_reviews
        with_progression ==
            IF Len(with_weak) < limit
            THEN with_weak \o GetProgressionProblems(limit - Len(with_weak))
            ELSE with_weak
    IN Take(SortByPriority(<<>>, with_progression), limit)

(* GET /recommendations/{user_id} *)
GetRecommendations(u, limit, rpc_fails) ==
    /\ \E reviews \in (IF rpc_fails THEN DueFallbackQuery(u, limit)
                                    ELSE GetDueRpc(u, limit)) :
          \E weak_skills \in WeakSkillsQuery :
              recs' = [limit |-> limit, reviews |-> reviews,
                       items |-> Recommendations(reviews, weak_skills, limit)]
    /\ UNCHANGED <<queue, now, nextId, resp, skills, subs>>

(* The stores the recommendations are computed from.  The review queue of  *)
(* user u1 holds slug a (absent, due with interval 1, due at the ceiling,  *)
(* or not yet due) and slug b (absent or due at the ceiling); skill t1 is  *)
(* absent or scored 0, 40 or 70, skill t2 absent or scored 40; the latest  *)
(* submissions are of problems a (Easy, t1), b (Easy, t1 and t2) and       *)
(* c (Medium, t2).                                                         *)
MaxSubs == 2
MaxRecLimit == 3

RecUser == "u1"

RecReviewRow(i, slug, interval, next_review) ==
    [id |-> i, tbl |-> RQ, user_id |-> RecUser, key |-> slug, reason |-> "r1",
     priority |-> DefaultPriority,
     next_review |-> next_review,
     interval_days |-> interval,
     review_count |-> IF interval = InitialInterval THEN 0 ELSE 1,
     last_reviewed |-> IF interval = InitialInterval THEN NoTime
                       ELSE next_review - interval]

RecTables ==
    {ra \cup rb :
        ra \in {{}, {RecReviewRow(1, "a", InitialInterval, DueNow)},
                {RecReviewRow(1, "a", IntervalCeiling, DueNow)},
                {RecReviewRow(1, "a", 2, DueNow + 1)}},
        rb \in {{}, {RecReviewRow(2, "b", IntervalCeiling, DueNow - 1)}}}

SkillTables ==
    {s1 \cup s2 :
        s1 \in {{}} \cup {{[tag |-> "t1", score |-> x]} : x \in {0, 40, WeakScore}},
        s2 \in {{}, {[tag |-> "t2", score |-> 40]}}}

SubRow(slug, status) ==
    [problem_slug |-> slug, status |-> status, submitted_at |-> DueNow,
     difficulty |-> IF slug = "c" THEN "Medium" ELSE "Easy",
     tags |-> IF slug = "a" THEN {"t1"}
              ELSE IF slug = "b" THEN {"t1", "t2"} ELSE {"t2"}]

SubRows == {SubRow(slug, status) :
               slug \in {"a", "b", "c"}, status \in {"Accepted", "Wrong Answer"}}

SubHistories ==
    UNION {[1..n -> SubRows] : n \in 0..MaxSubs}

InitRec ==
    /\ queue \in RecTables
    /\ now = DueNow
    /\ nextId = 3
    /\ resp = NoResponse
    /\ skills \in SkillTables
    /\ subs \in [recent : SubHistories, solved : 0..2]
    /\ recs = NoRecs
    /\ MissionIdle
    /\ ExtraIdle

NextRec ==
    /\ \E limit \in 1..MaxRecLimit, rpc_fails \in BOOLEAN :
          GetRecommendations(RecUser, limit, rpc_fails)
    /\ UNCHANGED mvars
    /\ UNCHANGED xvars

SpecRec == InitRec /\ [][NextRec]_vars

----------------------------------------------------------------------------
(* Daily missions: mission_generator.py *)

(* A JSON object is a record that has the keys the object has.  p.get(k)   *)
(* of a text or a number key, None and the empty value both being falsy    *)
RegenLimit == 3
FallbackReviews == 2
FallbackSize == 5
WeakStatusScore == 40

GetStr(p, k) == IF k \in DOMAIN p THEN p[k] ELSE ""

GetInt(p, k) == IF k \in DOMAIN p THEN p[k] ELSE 0

GetList(p, k) == IF k \in DOMAIN p THEN p[k] ELSE <<>>

(* _call_gemini: review_problems built from context["review_queue"] *)
RECURSIVE ReviewProblems(_)
ReviewProblems(reviews) ==
    IF reviews = <<>> THEN <<>>
    ELSE <<[slug |-> Head(reviews).key]>> \o ReviewProblems(Tail(reviews))

RECURSIVE FallbackFromReviews(_, _)
(* for i, r in enumerate(review_problems[:2]), i being the 0-based index   *)
FallbackFromReviews(review_problems, i) ==
    IF review_problems = <<>> THEN <<>>
    ELSE <<[problem_id |-> Head(review_problems).slug,
            source |-> "review", priority |-> i + 1]>>
             \o FallbackFromReviews(Tail(review_problems), i + 1)

RECURSIVE FallbackFromPath(_, _)
(* for p in available_problems[:remaining], problems being the list so far *)
FallbackFromPath(available_problems, problems) ==
    IF available_problems = <<>> THEN problems
    ELSE FallbackFromPath(Tail(available_problems),
             Append(problems, [problem_id |-> Head(available_problems),
                               source |-> "path",
                               priority |-> Len(problems) + 1]))

FallbackObjective(skill_scores, review_problems) ==
    LET weak_skills == SelectSeq(skill_scores,
                                 LAMBDA sk : sk.score < WeakStatusScore)
    IN IF weak_skills # <<>>
       THEN (IF weak_skills[1].tag = "t1" THEN "Strengthen t1"
                                          ELSE "Strengthen t2")
       ELSE IF review_problems # <<>> THEN "Review and consolidate"
       ELSE "Continue learning path progress"

(* The mutant of the fallback: the path problems are not cut to the slots  *)
(* the reviews leave                                                       *)
FallbackMissionUncut(skill_scores, available_problems, review_problems) ==
    LET from_reviews ==
            FallbackFromReviews(Take(review_problems, FallbackReviews), 0)
    IN [daily_objective |-> FallbackObjective(skill_scores, review_problems),
        problems |-> FallbackFromPath(Take(available_problems, FallbackSize),
                                      from_reviews)]

(* MissionGenerator._fallback_mission *)
FallbackMission(skill_scores, available_problems, review_problems) ==
    LET from_reviews ==
            FallbackFromReviews(Take(review_problems, FallbackReviews), 0)
        remaining == FallbackSize - Len(from_reviews)
    IN [daily_objective |-> FallbackObjective(skill_scores, review_problems),
        problems |-> FallbackFromPath(Take(available_problems, remaining),
                                      from_reviews)]

FallbackKinds == {"unconfigured", "raises", "unparseable"}

(* MissionGenerator._call_gemini: the generator is unconfigured, or        *)
(* generate_content raises, or json.loads raises, or json.loads returns    *)
(* the object g, or it returns a JSON value that is no object              *)
CallGemini(kind, g, skill_scores, available_problems, reviews) ==
    IF kind \in FallbackKinds
    THEN FallbackMission(skill_scores, available_problems,
                         ReviewProblems(reviews))
    ELSE g

ProblemId(p) ==
    IF GetStr(p, "problem_id") # "" THEN p.problem_id ELSE GetStr(p, "slug")

(* The mutant of the source: the category of a quest is ignored *)
ProblemSourceNoCategory(p) ==
    IF GetStr(p, "source") # "" THEN p.source ELSE "path"

ProblemSource(p) ==
    IF GetStr(p, "source") # "" THEN p.source
    ELSE IF "category" \in DOMAIN p THEN p.category
    ELSE "path"

ProblemPriority(p, i) ==
    IF GetInt(p, "priority") # 0 THEN p.priority
    ELSE IF GetInt(p, "order") # 0 THEN p.order
    ELSE i + 1

RawProblems(gemini_response) ==
    IF Len(GetList(gemini_response, "problems")) = 0
          /\ Len(GetList(gemini_response, "main_quests")) # 0
    THEN gemini_response.main_quests
    ELSE GetList(gemini_response, "problems")

RECURSIVE BuildProblems(_, _)
(* for i, p in enumerate(raw_problems) of _build_mission_data, from the    *)
(* 0-based index i on                                                      *)
BuildProblems(raw_problems, i) ==
    IF i >= Len(raw_problems) THEN <<>>
    ELSE LET p == raw_problems[i + 1]
         IN IF ProblemId(p) = "" THEN BuildProblems(raw_problems, i + 1)
            ELSE <<[problem_id |-> ProblemId(p),
                    source |-> ProblemSource(p),
                    priority |-> ProblemPriority(p, i),
                    completed |-> FALSE]>>
                     \o BuildProblems(raw_problems, i + 1)

(* The mutant of the regeneration limit: one regeneration more *)
LimitReachedLate(existing) == existing.regenerated_count > RegenLimit

LimitReached(existing) == existing.regenerated_count >= RegenLimit

(* _build_mission_data: the daily_missions row *)
MissionRow(gemini_response, existing) ==
    [present |-> TRUE,
     regenerated_count |-> IF existing.present
                           THEN existing.regenerated_count + 1 ELSE 0,
     daily_objective |-> IF "daily_objective" \in DOMAIN gemini_response
                         THEN gemini_response.daily_objective
                         ELSE "Focus on practice"]

(* _save_mission_problems: the rows inserted for the problems *)
ProblemRows(problems) ==
    {[pos |-> i, problem_id |-> problems[i].problem_id,
      source |-> problems[i].source, priority |-> problems[i].priority,
      completed |-> problems[i].completed] : i \in 1..Len(problems)}

RECURSIVE RowsToProblems(_)
RowsToProblems(rows) ==
    IF rows = <<>> THEN <<>>
    ELSE <<[problem_id |-> Head(rows).problem_id, source |-> Head(rows).source,
            priority |-> Head(rows).priority,
            completed |-> Head(rows).completed]>>
             \o RowsToProblems(Tail(rows))

(* _get_existing_mission: the problems of the stored mission, read         *)
(* .order("priority")                                                      *)
ExistingProblems ==
    {RowsToProblems(rows) :
        rows \in OrderLimit(mproblems, "priority",
                            Cardinality(mproblems))}

(* _enrich_mission: the slugs of the Accepted submissions with             *)
(* submitted_at at or after the start of date.today()                      *)
CompletedTodaySlugs ==
    {subs.recent[i].problem_slug :
        i \in {j \in 1..Len(subs.recent) :
                  /\ subs.recent[j].status = "Accepted"
                  /\ subs.recent[j].submitted_at >= now}}

RECURSIVE MarkCompleted(_)
MarkCompleted(problems) ==
    IF problems = <<>> THEN <<>>
    ELSE <<[Head(problems) EXCEPT !.completed =
                @ \/ Head(problems).problem_id \in CompletedTodaySlugs]>>
             \o MarkCompleted(Tail(problems))

(* The mutant of can_regenerate: true up to the limit, the limit included  *)
EnrichMissionLenient(op, ran, kind, gemini_response, row, problems) ==
    [tick |-> 1 - mresp.tick, op |-> op, status |-> 200, ran |-> ran,
     outcome |-> kind, gemini_response |-> gemini_response,
     problems |-> MarkCompleted(problems),
     can_regenerate |-> row.regenerated_count <= RegenLimit,
     regenerated_count |-> row.regenerated_count,
     daily_objective |-> row.daily_objective]

(* _enrich_mission, with the ghost fields of the call *)
EnrichMission(op, ran, kind, gemini_response, row, problems) ==
    [tick |-> 1 - mresp.tick, op |-> op, status |-> 200, ran |-> ran,
     outcome |-> kind, gemini_response |-> gemini_response,
     problems |-> MarkCompleted(problems),
     can_regenerate |-> row.regenerated_count < RegenLimit,
     regenerated_count |-> row.regenerated_count,
     daily_objective |-> row.daily_objective]

(* The exception of _build_mission_data on a response that is no object,   *)
(* which generate_mission does not catch                                   *)
MissionError(op, kind) ==
    [NoMissionResponse EXCEPT !.tick = 1 - mresp.tick, !.op = op,
                              !.status = 500, !.ran = TRUE, !.outcome = kind]

(* The mutant of the first return: a stored mission is never returned as   *)
(* it is                                                                   *)
ReturnsStoredNever(force_regenerate) == FALSE

(* if existing and not force_regenerate *)
ReturnsStored(force_regenerate) == mission.present /\ ~force_regenerate

(* MissionGenerator.generate_mission for the user and today's date; kind   *)
(* and g are what the generator does if it is called                       *)
GenerateMission(u, force_regenerate, kind, g) ==
    LET op == IF force_regenerate THEN "regenerate" ELSE "get"
    IN IF ReturnsStored(force_regenerate)
       THEN /\ \E problems \in ExistingProblems :
                  mresp' = EnrichMission(op, FALSE, "", NoObject,
                                         mission, problems)
            /\ UNCHANGED <<mission, mproblems, runs>>
       ELSE IF mission.present /\ LimitReached(mission)
       THEN /\ \E problems \in ExistingProblems :
                  mresp' = [EnrichMission(op, FALSE, "", NoObject,
                                          mission, problems)
                               EXCEPT !.can_regenerate = FALSE]
            /\ UNCHANGED <<mission, mproblems, runs>>
       ELSE IF kind = "nonobject"
       THEN /\ mresp' = MissionError(op, kind)
            /\ UNCHANGED <<mission, mproblems, runs>>
       ELSE \E reviews \in MissionReviewQuery(u) :
            \E skill_scores \in OrderLimit(skills, "score",
                                           Cardinality(skills)) :
               LET gemini_response ==
                       CallGemini(kind, g, skill_scores, path, reviews)
                   problems ==
                       BuildProblems(RawProblems(gemini_response), 0)
                   row == MissionRow(gemini_response, mission)
               IN /\ mission' = row
                  /\ mproblems' = ProblemRows(problems)
                  /\ runs' = IF force_regenerate
                             THEN [regenerate |-> runs.regenerate + 1,
                                   existing |-> runs.existing
                                       + (IF mission.present THEN 1 ELSE 0)]
                             ELSE runs
                  /\ mresp' = EnrichMission(op, TRUE, kind, gemini_response,
                                            row, problems)

(* GET /mission/{user_id} *)
GetDailyMission(u, kind, g) ==
    /\ GenerateMission(u, FALSE, kind, g)
    /\ UNCHANGED <<queue, now, nextId, resp, skills, subs, recs, path>>

(* POST /mission/{user_id}/regenerate *)
RegenerateMission(u, kind, g) ==
    /\ GenerateMission(u, TRUE, kind, g)
    /\ UNCHANGED <<queue, now, nextId, resp, skills, subs, recs, path>>

(* The stores of the mission specifications: the review queue of the       *)
(* recommendations, no skill score or one weak skill, no submission today  *)
(* or an Accepted one of problem a, and as unsolved path problems up to    *)
(* MaxPath consecutive problems of the path, from problem a or from the    *)
(* one behind it.                                                          *)
MaxPath == 2

PathOrder == <<"a", "p", "q", "r", "s", "t", "v", "w">>

PathViews ==
    {SubSeq(PathOrder, first, first + n - 1) :
        first \in 1..2, n \in 0..MaxPath}

GeminiObjects ==
    {[daily_objective |-> "o1",
      problems |-> <<[problem_id |-> "g", source |-> "gap_fill",
                      priority |-> 1]>>],
     [main_quests |-> <<[slug |-> "a", category |-> "X", order |-> 1]>>]}

GeneratorKinds == FallbackKinds \cup {"object", "nonobject"}

InitMission ==
    /\ queue \in RecTables
    /\ now = DueNow
    /\ nextId = 3
    /\ resp = NoResponse
    /\ skills \in {{}, {[tag |-> "t1", score |-> 0]}}
    /\ subs \in {NoSubs,
                 [recent |-> <<SubRow("a", "Accepted")>>, solved |-> 0]}
    /\ recs = NoRecs
    /\ mission = NoMission
    /\ mproblems = {}
    /\ path \in PathViews
    /\ runs = NoRuns
    /\ mresp = NoMissionResponse
    /\ ExtraIdle

NextMission ==
    /\ \/ \E kind \in GeneratorKinds, g \in GeminiObjects :
             GetDailyMission(RecUser, kind, g)
       \/ \E kind \in GeneratorKinds, g \in GeminiObjects :
             RegenerateMission(RecUser, kind, g)
    /\ UNCHANGED xvars

SpecMission == InitMission /\ [][NextMission]_vars

(* The generator's responses the assembly of the problems list is applied  *)
(* to: an absent, empty or filled problems list and up to MaxQuests        *)
(* main_quests items, each with or without a slug, a category and an       *)
(* order, the order being 0 or a number that is not the item's position.   *)
MaxQuests == 2

QuestOrder == 7

QuestItems ==
    {[title |-> "T"]} \cup
    {[title |-> "T", slug |-> sl] : sl \in {"a", "b"}} \cup
    {[title |-> "T", category |-> "X"]} \cup
    {[title |-> "T", slug |-> sl, category |-> "X"] : sl \in {"a", "b"}} \cup
    {[title |-> "T", order |-> o] : o \in {0, QuestOrder}} \cup
    {[title |-> "T", slug |-> sl, order |-> o] :
        sl \in {"a", "b"}, o \in {0, QuestOrder}} \cup
    {[title |-> "T", category |-> "X", order |-> o] : o \in {0, QuestOrder}} \cup
    {[title |-> "T", slug |-> sl, category |-> "X", order |-> o] :
        sl \in {"a", "b"}, o \in {0, QuestOrder}}

QuestLists == UNION {[1..n -> QuestItems] : n \in 0..MaxQuests}

BuildObjects ==
    {[main_quests |-> q] : q \in QuestLists} \cup
    {[problems |-> <<>>, main_quests |-> q] : q \in QuestLists} \cup
    {[problems |-> <<[problem_id |-> "g", source |-> "gap_fill",
                      priority |-> 1]>>,
      main_quests |-> q] : q \in QuestLists}

InitBuild ==
    /\ queue = {}
    /\ now = DueNow
    /\ nextId = 1
    /\ resp = NoResponse
    /\ RecIdle
    /\ mission = NoMission
    /\ mproblems = {}
    /\ path = <<"p">>
    /\ runs = NoRuns
    /\ mresp = NoMissionResponse
    /\ ExtraIdle

NextBuild ==
    /\ \/ /\ ~mission.present
          /\ \E g \in BuildObjects : GetDailyMission(RecUser, "object", g)
       \/ /\ mission.present
          /\ GetDailyMission(RecUser, "object", NoObject)
    /\ UNCHANGED xvars

SpecBuild == InitBuild /\ [][NextBuild]_vars

----------------------------------------------------------------------------
(* Concurrent completions: reviews.py complete_review, requests interleaved *)

(* Every request of a concurrent specification is one handler run, which   *)
(* is at "idle" before it starts and at "done" when it has answered.       *)
MaxCalls == 2

Handlers == 1..MaxCalls

IdleCall == [pc |-> "idle"]

AllDone == \A h \in Handlers : calls.reqs[h].pc = "done"

SetCall(h, call) == [calls EXCEPT !.reqs[h] = call]

(* The complete_review RPC of request h: the stored function reads the     *)
(* row, advances its interval and writes it in one statement               *)
RpcResultFromSnapshot(h) ==
    {IF r.id = calls.reqs[h].id
        THEN [r EXCEPT !.interval_days =
                           Advance(calls.reqs[h].success, calls.reqs[h].snapshot),
                       !.next_review =
                           now + Advance(calls.reqs[h].success,
                                         calls.reqs[h].snapshot),
                       !.review_count = r.review_count + 1,
                       !.last_reviewed = now]
        ELSE r : r \in queue}

RpcResult(h) == CompleteRpc(queue, calls.reqs[h].id, calls.reqs[h].success)

(* POST /reviews/{review_id}/complete arrives; snapshot is the interval    *)
(* stored at that moment                                                   *)
StartComplete(h, id, success) ==
    /\ calls.reqs[h].pc = "idle"
    /\ calls' = SetCall(h, [pc |-> "rpc", id |-> id, success |-> success,
                            snapshot |-> IntervalOf(RowById(id)),
                            base |-> 0, wrote |-> 0, rank |-> 0,
                            status |-> 0, seen |-> 0])
    /\ UNCHANGED <<queue, now, nextId, resp>>

(* supabase.rpc("complete_review", ...).execute() *)
CompleteRpcStep(h) ==
    /\ calls.reqs[h].pc = "rpc"
    /\ queue' = RpcResult(h)
    /\ calls' = SetCall(h, [calls.reqs[h] EXCEPT
                               !.pc = "read",
                               !.base = IntervalOf(RowById(calls.reqs[h].id)),
                               !.wrote = IntervalOf({r \in queue' :
                                             r.id = calls.reqs[h].id}),
                               !.rank = SumCounts(queue') - SumCounts(calls.start)])
    /\ UNCHANGED <<now, nextId, resp>>

(* The row read back with .single() and the answer *)
CompleteReadStep(h) ==
    /\ calls.reqs[h].pc = "read"
    /\ calls' = SetCall(h, [calls.reqs[h] EXCEPT
                               !.pc = "done",
                               !.status = IF RowById(calls.reqs[h].id) = {}
                                          THEN 500 ELSE 200,
                               !.seen = IntervalOf(RowById(calls.reqs[h].id))])
    /\ resp' = Response("complete",
                        IF RowById(calls.reqs[h].id) = {} THEN 500 ELSE 200,
                        calls.reqs[h].id, calls.reqs[h].success,
                        calls.reqs[h].base)
    /\ UNCHANGED <<queue, now, nextId>>

(* One stored item with any interval of the doubling chain; calls.start is *)
(* the store before the requests                                           *)
ChainIntervals == {1, 2, 4, 8, 16, IntervalCeiling}

InitComplete ==
    /\ \E interval \in ChainIntervals :
          queue = {RecReviewRow(1, "a", interval, DueNow)}
    /\ now = DueNow
    /\ nextId = 2
    /\ resp = NoResponse
    /\ RecIdle
    /\ MissionIdle
    /\ calls = [start |-> queue, reqs |-> [h \in Handlers |-> IdleCall]]
    /\ goals = {}
    /\ cache = NoCache
    /\ pace = NoPace

NextComplete ==
    /\ \/ \E h \in Handlers, id \in 1..2, success \in BOOLEAN :
             StartComplete(h, id, success)
       \/ \E h \in Handlers : CompleteRpcStep(h)
       \/ \E h \in Handlers : CompleteReadStep(h)
    /\ UNCHANGED rvars
    /\ UNCHANGED mvars
    /\ UNCHANGED <<goals, cache, pace>>

SpecComplete == InitComplete /\ [][NextComplete]_vars

----------------------------------------------------------------------------
(* Concurrent mission requests: generate_mission, its store accesses       *)
(* interleaved                                                             *)

MaxMissionCalls == 2

MissionHandlers == 1..MaxMissionCalls

MissionsDone == \A h \in MissionHandlers : calls.reqs[h].pc = "done"

(* The unique key (user_id, mission_date) of daily_missions: a second      *)
(* insert for the same user and date is refused by the store.  The mutant  *)
(* has no such key.                                                        *)
NoMissionKey == FALSE

MissionKeyViolation == mission.present

(* The mission_problems rows request h inserts, their ids unlike those of  *)
(* any other insert                                                        *)
ProblemRowsOf(h, problems) ==
    {[r EXCEPT !.pos = h * FallbackSize + r.pos] : r \in ProblemRows(problems)}

FinishMission(h, response) ==
    /\ calls' = [calls EXCEPT !.reqs[h] = [@ EXCEPT !.pc = "done"]]
    /\ mresp' = response

OpOf(h) == IF calls.reqs[h].force THEN "regenerate" ELSE "get"

(* A get or a regenerate request arrives; requests are numbered in the     *)
(* order of their arrival                                                  *)
MissionStart(h, force) ==
    /\ calls.reqs[h].pc = "idle"
    /\ \A g \in MissionHandlers : g < h => calls.reqs[g].pc # "idle"
    /\ calls' = SetCall(h, [pc |-> "lookup", force |-> force,
                            existing |-> NoMission, problems |-> <<>>,
                            gemini_response |-> NoObject, kind |-> "",
                            row |-> NoMission])
    /\ UNCHANGED <<mission, mproblems, mresp>>

(* _get_existing_mission: the daily_missions query *)
MissionLookupRow(h) ==
    /\ calls.reqs[h].pc = "lookup"
    /\ calls' = SetCall(h, [calls.reqs[h] EXCEPT
                               !.existing = mission,
                               !.pc = IF mission.present
                                      THEN "lookup_problems" ELSE "generate"])
    /\ UNCHANGED <<mission, mproblems, mresp>>

(* _get_existing_mission: the mission_problems query, and the two returns  *)
(* of generate_mission that need no generation                             *)
MissionLookupProblems(h) ==
    /\ calls.reqs[h].pc = "lookup_problems"
    /\ \E problems \in ExistingProblems :
          LET existing == calls.reqs[h].existing
              found == EnrichMission(OpOf(h), FALSE, "", NoObject,
                                     existing, problems)
          IN IF ~calls.reqs[h].force
             THEN FinishMission(h, found)
             ELSE IF LimitReached(existing)
             THEN FinishMission(h, [found EXCEPT !.can_regenerate = FALSE])
             ELSE /\ calls' = SetCall(h, [calls.reqs[h] EXCEPT
                                             !.pc = "generate"])
                  /\ mresp' = mresp
    /\ UNCHANGED <<mission, mproblems>>

(* _build_gemini_context, _call_gemini and the mission_data of             *)
(* _build_mission_data, computed from the mission this request found       *)
MissionGenerateStep(h, kind, g) ==
    /\ calls.reqs[h].pc = "generate"
    /\ IF kind = "nonobject"
       THEN FinishMission(h, MissionError(OpOf(h), kind))
       ELSE /\ \E reviews \in MissionReviewQuery(RecUser) :
               \E skill_scores \in OrderLimit(skills, "score",
                                              Cardinality(skills)) :
                  LET gemini_response ==
                          CallGemini(kind, g, skill_scores, path, reviews)
                  IN calls' = SetCall(h, [calls.reqs[h] EXCEPT
                        !.pc = IF calls.reqs[h].existing.present
                               THEN "update_row" ELSE "insert_row",
                        !.kind = kind,
                        !.gemini_response = gemini_response,
                        !.problems =
                            BuildProblems(RawProblems(gemini_response), 0),
                        !.row = MissionRow(gemini_response,
                                           calls.reqs[h].existing)])
            /\ mresp' = mresp
    /\ UNCHANGED <<mission, mproblems>>

(* _save_mission, is_update: the daily_missions row is updated *)
MissionUpdateRow(h) ==
    /\ calls.reqs[h].pc = "update_row"
    /\ mission' = calls.reqs[h].row
    /\ calls' = [calls EXCEPT !.reqs[h] = [@ EXCEPT !.pc = "delete_problems"],
                              !.saved = @ + 1]
    /\ UNCHANGED <<mproblems, mresp>>

(* _save_mission, is_update: the old mission_problems are deleted *)
MissionDeleteProblems(h) ==
    /\ calls.reqs[h].pc = "delete_problems"
    /\ mproblems' = {}
    /\ calls' = SetCall(h, [calls.reqs[h] EXCEPT !.pc = "insert_problems"])
    /\ UNCHANGED <<mission, mresp>>

(* _save_mission, insert: the daily_missions row is inserted, or the       *)
(* insert is refused and the request fails                                 *)
MissionInsertRow(h) ==
    /\ calls.reqs[h].pc = "insert_row"
    /\ IF MissionKeyViolation
       THEN /\ FinishMission(h, MissionError(OpOf(h), calls.reqs[h].kind))
            /\ UNCHANGED mission
       ELSE /\ mission' = calls.reqs[h].row
            /\ calls' = [calls EXCEPT
                            !.reqs[h] = [@ EXCEPT !.pc = "insert_problems"],
                            !.rows = @ + 1]
            /\ mresp' = mresp
    /\ UNCHANGED mproblems

(* _save_mission_problems, then _enrich_mission of the mission_data *)
MissionInsertProblems(h) ==
    /\ calls.reqs[h].pc = "insert_problems"
    /\ mproblems' = mproblems \cup ProblemRowsOf(h, calls.reqs[h].problems)
    /\ FinishMission(h, EnrichMission(OpOf(h), TRUE, calls.reqs[h].kind,
                                      calls.reqs[h].gemini_response,
                                      calls.reqs[h].row,
                                      calls.reqs[h].problems))
    /\ UNCHANGED mission

(* The day's mission before the requests: none, or one that was            *)
(* regenerated 0 to 3 times.  calls.rows counts the daily_missions rows of *)
(* the user and date, calls.saved the regenerations saved by the requests. *)
StoredMissions ==
    {NoMission} \cup
    {[present |-> TRUE, regenerated_count |-> c, daily_objective |-> "o0"] :
        c \in 0..RegenLimit}

StoredProblems ==
    ProblemRows(<<[problem_id |-> "p", source |-> "path", priority |-> 1,
                   completed |-> FALSE]>>)

InitMissionCalls ==
    /\ queue = {RecReviewRow(1, "a", InitialInterval, DueNow)}
    /\ now = DueNow
    /\ nextId = 2
    /\ resp = NoResponse
    /\ RecIdle
    /\ mission \in StoredMissions
    /\ mproblems = IF mission.present THEN StoredProblems ELSE {}
    /\ path = <<"p", "q">>
    /\ runs = NoRuns
    /\ mresp = NoMissionResponse
    /\ calls = [start |-> mission,
                rows |-> IF mission.present THEN 1 ELSE 0,
                saved |-> 0,
                reqs |-> [h \in MissionHandlers |-> IdleCall]]
    /\ goals = {}
    /\ cache = NoCache
    /\ pace = NoPace

NextMissionCalls ==
    /\ \/ \E h \in MissionHandlers, force \in BOOLEAN : MissionStart(h, force)
       \/ \E h \in MissionHandlers : MissionLookupRow(h)
       \/ \E h \in MissionHandlers : MissionLookupProblems(h)
       \/ \E h \in MissionHandlers, kind \in {"unconfigured", "object", "nonobject"} :
             MissionGenerateStep(h, kind, CHOOSE g \in GeminiObjects :
                                              "problems" \in DOMAIN g)
       \/ \E h \in MissionHandlers : MissionUpdateRow(h)
       \/ \E h \in MissionHandlers : MissionDeleteProblems(h)
       \/ \E h \in MissionHandlers : MissionInsertRow(h)
       \/ \E h \in MissionHandlers : MissionInsertProblems(h)
    /\ UNCHANGED <<queue, now, nextId, resp, skills, subs, recs>>
    /\ UNCHANGED <<path, runs, goals, cache, pace>>

SpecMissionCalls == InitMissionCalls /\ [][NextMissionCalls]_vars

----------------------------------------------------------------------------
(* Pacing: objectives.py calculate_pace_status *)

(* Dates are day numbers (date.toordinal()); DateMax is that of date.max,  *)
(* beyond which date + timedelta raises OverflowError.  The float          *)
(* quotients of the code are computed here in integers: on the inputs of   *)
(* PaceInputs, and with MaxProblems one higher, int() of the float         *)
(* products and the comparisons of pace_percentage give these results.     *)
DateMax == 3652059
DefaultWeeklyTarget == 25
AheadPercent == 110
OnTrackPercent == 90
BehindPercent == 70

NoDate == 0

DaysElapsed(objective, today) == Max(1, today - objective.started_at)

DaysTotal(objective) ==
    Max(1, objective.target_deadline - objective.started_at)

DaysRemaining(objective, today) == Max(0, objective.target_deadline - today)

(* int(weekly_target * (days_total / 7.0)) *)
TotalProblemsTarget(objective) ==
    (objective.weekly_problem_target * DaysTotal(objective)) \div 7

(* int((days_elapsed / days_total) * total_problems_target) *)
ExpectedProblems(objective, today) ==
    (DaysElapsed(objective, today) * TotalProblemsTarget(objective))
        \div DaysTotal(objective)

(* The mutant of the bands: the lower bound of ahead is exclusive *)
PaceBandExclusive(cumulative_problems, expected_problems) ==
    LET whole == Max(1, expected_problems)
    IN IF 100 * cumulative_problems > AheadPercent * whole THEN "ahead"
       ELSE IF 100 * cumulative_problems >= OnTrackPercent * whole
            THEN "on_track"
       ELSE IF 100 * cumulative_problems >= BehindPercent * whole
            THEN "behind"
       ELSE "critical"

(* pace_percentage = cumulative / max(1, expected) * 100 against 110, 90   *)
(* and 70                                                                  *)
PaceBand(cumulative_problems, expected_problems) ==
    LET whole == Max(1, expected_problems)
    IN IF 100 * cumulative_problems >= AheadPercent * whole THEN "ahead"
       ELSE IF 100 * cumulative_problems >= OnTrackPercent * whole
            THEN "on_track"
       ELSE IF 100 * cumulative_problems >= BehindPercent * whole
            THEN "behind"
       ELSE "critical"

(* int(total_problems_target / (cumulative_problems / days_elapsed)) *)
DaysToCompletion(objective, today, cumulative_problems) ==
    (TotalProblemsTarget(objective) * DaysElapsed(objective, today))
        \div cumulative_problems

(* calculate_pace_status: the PaceStatus returned, with the clamped day    *)
(* counts it was computed from, or the OverflowError of the projected      *)
(* completion date                                                         *)
CalculatePaceStatus(objective, today, cumulative_problems) ==
    LET expected_problems == ExpectedProblems(objective, today)
        projects == cumulative_problems > 0
        projected == objective.started_at
                        + DaysToCompletion(objective, today,
                                           cumulative_problems)
    IN IF projects /\ projected > DateMax
       THEN [error |-> TRUE, status |-> "", expected_problems |-> 0,
             days_elapsed |-> 0, days_total |-> 0, days_remaining |-> 0,
             problems_behind |-> 0, projected_completion_date |-> NoDate]
       ELSE [error |-> FALSE,
             status |-> PaceBand(cumulative_problems, expected_problems),
             expected_problems |-> expected_problems,
             days_elapsed |-> DaysElapsed(objective, today),
             days_total |-> DaysTotal(objective),
             days_remaining |-> DaysRemaining(objective, today),
             problems_behind |-> Max(0, expected_problems - cumulative_problems),
             projected_completion_date |->
                 IF projects THEN projected ELSE NoDate]

(* One call of calculate_pace_status *)
PaceCall ==
    /\ ~pace.done
    /\ pace' = [pace EXCEPT
                   !.done = TRUE,
                   !.result = CalculatePaceStatus(pace.objective, pace.today,
                                                  pace.cumulative_problems)]
    /\ UNCHANGED <<queue, now, nextId, resp, calls, goals, cache>>

(* The objectives and days the function is applied to: a goal started on   *)
(* 2015-01-01 whose deadline is before, on or after the start, read before *)
(* the start, on it, before, on and long after the deadline, with a weekly *)
(* target of 0, 7 or 25 and up to MaxProblems problems solved.             *)
MaxProblems == 11

PaceStart == 735599

PaceInputs ==
    [objective : [started_at : {PaceStart},
                  target_deadline : {PaceStart + d : d \in {-5, 0, 1, 20, 365}},
                  weekly_problem_target : {0, 7, DefaultWeeklyTarget}],
     today : {PaceStart + d : d \in {-1, 0, 1, 10, 20, 4324}},
     cumulative_problems : 0..MaxProblems]

NoResult == CalculatePaceStatus([started_at |-> 0, target_deadline |-> 0,
                                 weekly_problem_target |-> 0], 0, 0)

InitPace ==
    /\ queue = {}
    /\ now = DueNow
    /\ nextId = 1
    /\ resp = NoResponse
    /\ RecIdle
    /\ MissionIdle
    /\ calls = NoCalls
    /\ goals = {}
    /\ cache = NoCache
    /\ \E input \in PaceInputs :
          pace = [done |-> FALSE, objective |-> input.objective,
                  today |-> input.today,
                  cumulative_problems |-> input.cumulative_problems,
                  result |-> NoResult]

NextPace ==
    /\ PaceCall
    /\ UNCHANGED rvars
    /\ UNCHANGED mvars

SpecPace == InitPace /\ [][NextPace]_vars

----------------------------------------------------------------------------
(* Concurrent goal requests: create_objective, update_objective and        *)
(* delete_objective, their store accesses interleaved                      *)

MaxGoalCalls == 2

GoalHandlers == 1..MaxGoalCalls

GoalUsers == {RecUser, "u2"}

GoalStatuses == {"active", "paused"}

GoalRow(id, user_id, status) == [id |-> id, user_id |-> user_id, status |-> status]

(* .eq("user_id", ...).eq("status", "active") on meta_objectives *)
ActiveGoals(user_id) ==
    {g \in goals : g.user_id = user_id /\ g.status = "active"}

(* .update({...}).eq("id", id) on meta_objectives *)
UpdateGoal(id, status) ==
    {IF g.id = id THEN [g EXCEPT !.status = status] ELSE g : g \in goals}

(* The rows create_objective pauses: existing.data[0] alone; the select    *)
(* has no order, so any of the rows found can be the first                 *)
PauseTargets(existing, first) == {first}

(* A request arrives: POST, PUT or DELETE /objectives/{user_id}; template  *)
(* tells whether the row of request.template_id exists, status is the      *)
(* status field of an UpdateObjectiveRequest ("" when it is None)          *)
GoalStart(h, op, user_id, template, status) ==
    /\ calls.reqs[h].pc = "idle"
    /\ calls' = SetCall(h, [pc |-> "select", op |-> op, user_id |-> user_id,
                            template |-> template, new_status |-> status,
                            existing |-> {}, first |-> NoId, status |-> 0,
                            id |-> NoId])
    /\ UNCHANGED goals

(* create_objective: the select of the user's active rows *)
CreateSelect(h) ==
    /\ calls.reqs[h].pc = "select"
    /\ calls.reqs[h].op = "create"
    /\ LET existing == {g.id : g \in ActiveGoals(calls.reqs[h].user_id)}
       IN  \/ /\ existing = {}
              /\ calls' = SetCall(h, [calls.reqs[h] EXCEPT !.pc = "insert"])
           \/ \E first \in existing :
                 calls' = SetCall(h, [calls.reqs[h] EXCEPT
                                         !.pc = "pause",
                                         !.existing = existing,
                                         !.first = first])
    /\ UNCHANGED goals

(* create_objective: the update that pauses existing.data[0] *)
CreatePause(h) ==
    /\ calls.reqs[h].pc = "pause"
    /\ goals' = {IF g.id \in PauseTargets(calls.reqs[h].existing,
                                          calls.reqs[h].first)
                    THEN [g EXCEPT !.status = "paused"]
                    ELSE g : g \in goals}
    /\ calls' = SetCall(h, [calls.reqs[h] EXCEPT !.pc = "insert"])

(* create_objective: the template read with .single(), which raises when   *)
(* the template is missing, then the insert of the new active row          *)
CreateInsert(h) ==
    /\ calls.reqs[h].pc = "insert"
    /\ IF calls.reqs[h].template = "missing"
          THEN /\ goals' = goals
               /\ calls' = SetCall(h, [calls.reqs[h] EXCEPT
                                          !.pc = "done", !.status = 500])
          ELSE /\ goals' = goals \cup {GoalRow(calls.next,
                                               calls.reqs[h].user_id, "active")}
               /\ calls' = [SetCall(h, [calls.reqs[h] EXCEPT
                                           !.pc = "done", !.status = 200,
                                           !.id = calls.next])
                               EXCEPT !.next = calls.next + 1]

(* update_objective: the active row read with .single(), which raises      *)
(* unless exactly one row matches                                          *)
UpdateSelect(h) ==
    /\ calls.reqs[h].pc = "select"
    /\ calls.reqs[h].op = "update"
    /\ LET existing == {g.id : g \in ActiveGoals(calls.reqs[h].user_id)}
       IN  IF Cardinality(existing) = 1
              THEN calls' = SetCall(h, [calls.reqs[h] EXCEPT
                                           !.pc = "write",
                                           !.existing = existing,
                                           !.first = CHOOSE id \in existing : TRUE])
              ELSE calls' = SetCall(h, [calls.reqs[h] EXCEPT
                                           !.pc = "done", !.status = 500])
    /\ UNCHANGED goals

(* update_objective: the update of the row read, by id; no row updated is  *)
(* answered 500                                                            *)
UpdateWrite(h) ==
    /\ calls.reqs[h].pc = "write"
    /\ goals' = IF calls.reqs[h].new_status = ""
                   THEN goals
                   ELSE UpdateGoal(calls.reqs[h].first, calls.reqs[h].new_status)
    /\ calls' = SetCall(h, [calls.reqs[h] EXCEPT
                               !.pc = "done",
                               !.id = calls.reqs[h].first,
                               !.status = IF \E g \in goals :
                                                g.id = calls.reqs[h].first
                                             THEN 200 ELSE 500])

(* delete_objective: one delete of the user's active rows *)
DeleteObjective(h) ==
    /\ calls.reqs[h].pc = "select"
    /\ calls.reqs[h].op = "delete"
    /\ goals' = goals \ ActiveGoals(calls.reqs[h].user_id)
    /\ calls' = SetCall(h, [calls.reqs[h] EXCEPT !.pc = "done", !.status = 200])

(* The store before the requests: no goal, or the goal an earlier create   *)
(* left active, for each user                                              *)
GoalStores ==
    {s1 \cup s2 : s1 \in {{}, {GoalRow(1, RecUser, "active")}},
                  s2 \in {{}, {GoalRow(2, "u2", "active")}}}

InitGoals ==
    /\ queue = {}
    /\ now = DueNow
    /\ nextId = 1
    /\ resp = NoResponse
    /\ RecIdle
    /\ MissionIdle
    /\ goals \in GoalStores
    /\ calls = [start |-> goals, next |-> 3,
                reqs |-> [h \in GoalHandlers |-> IdleCall]]
    /\ cache = NoCache
    /\ pace = NoPace

NextGoals ==
    /\ \/ \E h \in GoalHandlers, user_id \in GoalUsers,
             template \in {"none", "found", "missing"} :
             GoalStart(h, "create", user_id, template, "")
       \/ \E h \in GoalHandlers, user_id \in GoalUsers,
             status \in GoalStatuses \cup {""} :
             GoalStart(h, "update", user_id, "none", status)
       \/ \E h \in GoalHandlers, user_id \in GoalUsers :
             GoalStart(h, "delete", user_id, "none", "")
       \/ \E h \in GoalHandlers : CreateSelect(h)
       \/ \E h \in GoalHandlers : CreatePause(h)
       \/ \E h \in GoalHandlers : CreateInsert(h)
       \/ \E h \in GoalHandlers : UpdateSelect(h)
       \/ \E h \in GoalHandlers : UpdateWrite(h)
       \/ \E h \in GoalHandlers : DeleteObjective(h)
    /\ UNCHANGED <<queue, now, nextId, resp, cache, pace>>
    /\ UNCHANGED rvars
    /\ UNCHANGED mvars

SpecGoals == InitGoals /\ [][NextGoals]_vars

----------------------------------------------------------------------------
(* The language dashboard and its in-process cache: get_dashboard_summary  *)
(* with the handlers that change what it shows.  Here calls is the         *)
(* language store, the monotonic clock and the last answer, and cache is   *)
(* _lang_dashboard_cache; fresh is a ghost field of an entry, cleared by   *)
(* every write to the store for the entry's user and read by no handler    *)

LangDashboardCacheTTL == 300

PassScore == 7

MaxTicks == 2

ClockStep == LangDashboardCacheTTL \div 2

LangUsers == {RecUser, "u2"}

LangTrack == 1

MissingTrack == 2

LangTopic == "t"

NoScore == 0 - 1

LangReview(id, user_id, topic, due) ==
    [id |-> id, user_id |-> user_id, topic |-> topic, due |-> due]

LangAttempt(id, user_id, status, score) ==
    [id |-> id, user_id |-> user_id, status |-> status, score |-> score,
     track_id |-> LangTrack, topic |-> LangTopic]

NoLangAnswer ==
    [op |-> "none", user_id |-> "", status |-> 0, hit |-> FALSE,
     fresh |-> TRUE, current |-> TRUE]

(* The LanguageDashboardSummary get_dashboard_summary computes from the    *)
(* store: the active track, the first topic of it not completed, the due   *)
(* reviews, the score of the graded attempt and the attempts of the week   *)
Summary(user_id) ==
    LET track == calls.settings[user_id]
        graded == {a \in calls.attempts :
                      a.user_id = user_id /\ a.status = "graded"}
    IN  [active_track |-> track,
         next_topic |-> IF track # NoId /\ LangTopic \notin calls.progress[user_id]
                           THEN LangTopic ELSE "",
         reviews_due |-> {r.id : r \in {q \in calls.reviews :
                                           q.user_id = user_id /\ q.due}},
         recent_score |-> IF graded = {} THEN NoScore
                             ELSE (CHOOSE a \in graded : TRUE).score,
         exercises_this_week |-> Cardinality({a \in calls.attempts :
                                                 a.user_id = user_id})]

(* cached and cached[0] > time.monotonic() *)
CacheHit(user_id) ==
    /\ user_id \in DOMAIN cache
    /\ cache[user_id].expires > calls.clock

(* The cache after a handler wrote to the store for user_id: no handler    *)
(* removes or replaces an entry, so only the ghost field changes           *)
AfterWrite(user_id) ==
    [u \in DOMAIN cache |->
        IF u = user_id THEN [cache[u] EXCEPT !.fresh = FALSE] ELSE cache[u]]

LangAnswer(op, user_id, status) ==
    [NoLangAnswer EXCEPT !.op = op, !.user_id = user_id, !.status = status]

(* GET /language/{user_id}/dashboard *)
GetDashboardSummary(user_id) ==
    IF CacheHit(user_id)
       THEN /\ calls' = [calls EXCEPT !.last =
                            [op |-> "dashboard", user_id |-> user_id,
                             status |-> 200, hit |-> TRUE,
                             fresh |-> cache[user_id].fresh,
                             current |-> cache[user_id].summary =
                                             Summary(user_id)]]
            /\ UNCHANGED cache
       ELSE /\ cache' = [u \in DOMAIN cache \cup {user_id} |->
                            IF u = user_id
                               THEN [expires |-> calls.clock + LangDashboardCacheTTL,
                                     summary |-> Summary(user_id),
                                     fresh |-> TRUE]
                               ELSE cache[u]]
            /\ calls' = [calls EXCEPT !.last =
                            [op |-> "dashboard", user_id |-> user_id,
                             status |-> 200, hit |-> FALSE, fresh |-> TRUE,
                             current |-> TRUE]]

(* POST /language/reviews/{review_id}/complete: the RPC moves next_review  *)
(* of the row at least a day ahead, so the row is no longer due; the       *)
(* read-back with .single() raises when there is no such row               *)
LangCompleteReview(review_id, success) ==
    LET rows == {r \in calls.reviews : r.id = review_id}
    IN  IF rows = {}
           THEN /\ calls' = [calls EXCEPT !.last = LangAnswer("complete", "", 500)]
                /\ UNCHANGED cache
           ELSE LET row == CHOOSE r \in rows : TRUE
                IN  /\ calls' = [calls EXCEPT
                                    !.reviews = (calls.reviews \ rows) \cup
                                                {[row EXCEPT !.due = FALSE]},
                                    !.last = LangAnswer("complete", row.user_id, 200)]
                    /\ cache' = AfterWrite(row.user_id)

(* PUT /language/{user_id}/active-track: the track is read with .single(), *)
(* then the settings row is upserted                                       *)
SetActiveTrack(user_id, track_id) ==
    IF track_id = MissingTrack
       THEN /\ calls' = [calls EXCEPT !.last = LangAnswer("track", user_id, 500)]
            /\ UNCHANGED cache
       ELSE /\ calls' = [calls EXCEPT
                            !.settings[user_id] = track_id,
                            !.last = LangAnswer("track", user_id, 200)]
            /\ cache' = AfterWrite(user_id)

(* POST /language/attempts/{attempt_id}/submit with the score the grader   *)
(* gives: a graded attempt is answered as stored; a pending one is graded  *)
(* and its topic added to the completed topics of the track.  With a score *)
(* below 7 the topic is upserted into language_review_queue on conflict    *)
(* (user_id, topic): the user's row of that topic is there and the upsert  *)
(* sets its priority, interval_days and reason, none of which the          *)
(* dashboard shows                                                         *)
SubmitAttempt(attempt_id, score) ==
    LET rows == {a \in calls.attempts : a.id = attempt_id}
    IN  IF rows = {}
           THEN /\ calls' = [calls EXCEPT !.last = LangAnswer("submit", "", 500)]
                /\ UNCHANGED cache
           ELSE LET attempt == CHOOSE a \in rows : TRUE
                IN  IF attempt.status = "graded"
                       THEN /\ calls' = [calls EXCEPT !.last =
                                            LangAnswer("submit", attempt.user_id, 200)]
                            /\ UNCHANGED cache
                       ELSE /\ calls' =
                                  [calls EXCEPT
                                      !.attempts = (calls.attempts \ rows) \cup
                                          {[attempt EXCEPT !.status = "graded",
                                                           !.score = score]},
                                      !.progress[attempt.user_id] =
                                          calls.progress[attempt.user_id] \cup
                                              {attempt.topic},
                                      !.last = LangAnswer("submit",
                                                          attempt.user_id, 200)]
                            /\ cache' = AfterWrite(attempt.user_id)

(* time.monotonic() advances, half a TTL at a time *)
ClockTick ==
    /\ calls.clock < MaxTicks * ClockStep
    /\ calls' = [calls EXCEPT !.clock = calls.clock + ClockStep]
    /\ UNCHANGED cache

(* The first user has one due review, left by an earlier attempt on the    *)
(* topic, and one attempt on it waiting to be graded; the second has none; *)
(* no track is active and the cache of the new process is empty            *)
InitCache ==
    /\ queue = {}
    /\ now = DueNow
    /\ nextId = 1
    /\ resp = NoResponse
    /\ RecIdle
    /\ MissionIdle
    /\ calls = [clock |-> 0,
                settings |-> [u \in LangUsers |-> NoId],
                reviews |-> {LangReview(1, RecUser, LangTopic, TRUE)},
                attempts |-> {LangAttempt(1, RecUser, "pending", NoScore)},
                progress |-> [u \in LangUsers |-> {}],
                last |-> NoLangAnswer]
    /\ goals = {}
    /\ cache = NoCache
    /\ pace = NoPace

NextCache ==
    /\ \/ \E user_id \in LangUsers : GetDashboardSummary(user_id)
       \/ \E review_id \in 1..2, success \in BOOLEAN :
             LangCompleteReview(review_id, success)
       \/ \E user_id \in LangUsers, track_id \in {NoId, LangTrack, MissingTrack} :
             SetActiveTrack(user_id, track_id)
       \/ \E attempt_id \in 1..2, score \in {PassScore - 2, PassScore + 1} :
             SubmitAttempt(attempt_id, score)
       \/ ClockTick
    /\ UNCHANGED <<queue, now, nextId, resp, goals, pace>>
    /\ UNCHANGED rvars
    /\ UNCHANGED mvars

SpecCache == InitCache /\ [][NextCache]_vars

----------------------------------------------------------------------------
(* Reading a stored mission around midnight: generate_mission takes        *)
(* mission_date from date.today() when the request starts, reads the       *)
(* stored mission and its problems, and _enrich_mission takes today from   *)
(* date.today() again.  Here calls is the one request, with its position   *)
(* and locals, and now is the day of the server's clock                    *)

MaxMidnights == 1

MaxEnrichSubs == 2

SubRowOn(slug, status, day) == [SubRow(slug, status) EXCEPT !.submitted_at = day]

(* mission_date = date.today(), line 54 *)
EnrichStart ==
    /\ calls.pc = "idle"
    /\ calls' = [calls EXCEPT !.pc = "lookup", !.mission_date = now]
    /\ UNCHANGED <<now, mresp>>

(* _get_existing_mission(user_id, mission_date) *)
EnrichLookup ==
    /\ calls.pc = "lookup"
    /\ \E problems \in ExistingProblems :
          calls' = [calls EXCEPT !.pc = "enrich", !.existing = problems]
    /\ UNCHANGED <<now, mresp>>

(* return await self._enrich_mission(existing, user_id) *)
EnrichAnswer ==
    /\ calls.pc = "enrich"
    /\ mresp' = EnrichMission("get", FALSE, "", NoObject, mission,
                              calls.existing)
    /\ calls' = [calls EXCEPT !.pc = "done", !.today = now]
    /\ UNCHANGED now

(* Midnight passes while the request is in flight *)
Midnight ==
    /\ calls.pc \in {"lookup", "enrich"}
    /\ now < DueNow + MaxMidnights
    /\ now' = now + 1
    /\ UNCHANGED <<calls, mresp>>

(* The stored mission of the day with one or two problems and up to        *)
(* MaxEnrichSubs submissions of the user, of yesterday or of the day,      *)
(* Accepted or not                                                         *)
EnrichMissions ==
    {<<[problem_id |-> "a", source |-> "review", priority |-> 1,
        completed |-> FALSE]>>,
     <<[problem_id |-> "a", source |-> "review", priority |-> 1,
        completed |-> FALSE],
       [problem_id |-> "b", source |-> "path", priority |-> 2,
        completed |-> FALSE]>>}

EnrichSubs ==
    UNION {[1..n -> {SubRowOn(slug, status, day) :
                        slug \in {"a", "b"},
                        status \in {"Accepted", "Wrong Answer"},
                        day \in {DueNow - 1, DueNow}}] : n \in 0..MaxEnrichSubs}

InitEnrich ==
    /\ queue = {}
    /\ now = DueNow
    /\ nextId = 1
    /\ resp = NoResponse
    /\ skills = {}
    /\ \E recent \in EnrichSubs : subs = [recent |-> recent, solved |-> 0]
    /\ recs = NoRecs
    /\ mission = [present |-> TRUE, regenerated_count |-> 0,
                  daily_objective |-> "o1"]
    /\ \E problems \in EnrichMissions : mproblems = ProblemRows(problems)
    /\ path = <<>>
    /\ runs = NoRuns
    /\ mresp = NoMissionResponse
    /\ calls = [pc |-> "idle", mission_date |-> NoDate, today |-> NoDate,
                existing |-> <<>>, start |-> mproblems]
    /\ goals = {}
    /\ cache = NoCache
    /\ pace = NoPace

NextEnrich ==
    /\ \/ EnrichStart
       \/ EnrichLookup
       \/ EnrichAnswer
       \/ Midnight
    /\ UNCHANGED <<queue, nextId, resp, goals, cache, pace>>
    /\ UNCHANGED rvars
    /\ UNCHANGED <<mission, mproblems, path, runs>>

SpecEnrich == InitEnrich /\ [][NextEnrich]_vars

----------------------------------------------------------------------------
(* The skill gaps of a goal: calculate_skill_gaps.  Scores are counted in  *)
(* hundredths of a point; required_skills is the dict in its item order,   *)
(* a sequence of domain and target, current_scores the dict of the scored  *)
(* domains.  Here pace is the one call with its inputs and result          *)

MaxDomains == 2

(* round(x, 1) of a score that is not half-way between two tenths *)
Round1(x) == ((x + 5) \div 10) * 10

(* current_scores.get(domain, 0.0) *)
CurrentScore(current_scores, domain) ==
    IF domain \in DOMAIN current_scores THEN current_scores[domain] ELSE 0

(* The mutant of the gap: the difference as it is, below 0 too *)
GapSigned(target_score, current_score) == target_score - current_score

(* gap = max(0, target_score - current_score) *)
Gap(target_score, current_score) == Max(0, target_score - current_score)

SkillGap(item, current_scores) ==
    [domain |-> item.domain,
     current_score |-> Round1(CurrentScore(current_scores, item.domain)),
     target_score |-> item.target,
     gap |-> Round1(Gap(item.target,
                        CurrentScore(current_scores, item.domain))),
     priority |-> 0]

RECURSIVE InsertByGap(_, _)
(* x put behind every element of the sorted list whose gap is not smaller *)
InsertByGap(sorted, x) ==
    IF sorted = <<>> THEN <<x>>
    ELSE IF Head(sorted).gap >= x.gap
         THEN <<Head(sorted)>> \o InsertByGap(Tail(sorted), x)
         ELSE <<x>> \o sorted

RECURSIVE SortByGap(_, _)
(* gaps.sort(key=gap, reverse=True): stable *)
SortByGap(sorted, rest) ==
    IF rest = <<>> THEN sorted
    ELSE SortByGap(InsertByGap(sorted, Head(rest)), Tail(rest))

CalculateSkillGaps(required_skills, current_scores) ==
    LET gaps == [i \in 1..Len(required_skills) |->
                    SkillGap(required_skills[i], current_scores)]
        sorted == SortByGap(<<>>, gaps)
    IN  [i \in 1..Len(sorted) |-> [sorted[i] EXCEPT !.priority = i]]

(* One call of calculate_skill_gaps *)
GapsCall ==
    /\ ~pace.done
    /\ pace' = [pace EXCEPT
                   !.done = TRUE,
                   !.result = CalculateSkillGaps(pace.required_skills,
                                                 pace.current_scores)]

(* Up to MaxDomains required domains with a target of 70 or 80 points,     *)
(* each unscored or scored 66.62, 66.66, 66.69 or 90 points                *)
GapDomains == {"d1", "d2", "d3"}

GapTargets == {7000, 8000}

GapScores == {6662, 6666, 6669, 9000}

RequiredSkills ==
    {r \in UNION {[1..n -> [domain : GapDomains, target : GapTargets]] :
                      n \in 0..MaxDomains} :
        \A i, j \in 1..Len(r) : i # j => r[i].domain # r[j].domain}

CurrentScores(required_skills) ==
    UNION {[scored -> GapScores] :
              scored \in SUBSET {required_skills[i].domain :
                                    i \in 1..Len(required_skills)}}

InitGaps ==
    /\ queue = {}
    /\ now = DueNow
    /\ nextId = 1
    /\ resp = NoResponse
    /\ RecIdle
    /\ MissionIdle
    /\ calls = NoCalls
    /\ goals = {}
    /\ cache = NoCache
    /\ \E required_skills \in RequiredSkills :
          \E current_scores \in CurrentScores(required_skills) :
             pace = [done |-> FALSE, required_skills |-> required_skills,
                     current_scores |-> current_scores, result |-> <<>>]

NextGaps ==
    /\ GapsCall
    /\ UNCHANGED <<queue, now, nextId, resp, calls, goals, cache>>
    /\ UNCHANGED rvars
    /\ UNCHANGED mvars

SpecGaps == InitGaps /\ [][NextGaps]_vars

----------------------------------------------------------------------------
(* An item from one completion to the day it is due again: complete_review *)
(* and get_review_count with the clock running for MaxDays days            *)

MaxDays == 31

MaxScheduleReviews == 2

(* .lte("next_review", datetime.utcnow()) *)
IsDue(r) == r.next_review <= now

(* GET /reviews/{user_id}/count *)
GetReviewCount(u) ==
    /\ resp' = ListResponse("count", u,
                            Cardinality({r \in queue :
                                            /\ r.tbl = RQ
                                            /\ r.user_id = u
                                            /\ IsDue(r)}),
                            FALSE, <<>>)
    /\ UNCHANGED <<queue, now, nextId>>

(* One item of the user, due today, last completed interval_days ago with  *)
(* any interval of the doubling chain                                      *)
InitSchedule ==
    /\ now = IntervalCeiling
    /\ \E interval \in ChainIntervals :
          queue = {RecReviewRow(1, "a", interval, now)}
    /\ nextId = 2
    /\ resp = NoResponse
    /\ RecIdle
    /\ MissionIdle
    /\ ExtraIdle

NextSchedule ==
    /\ \/ \E success \in BOOLEAN :
             /\ SumCounts(queue) <= MaxScheduleReviews
             /\ CompleteReview(1, success)
       \/ GetReviewCount(RecUser)
       \/ now < IntervalCeiling + MaxDays /\ Tick
    /\ UNCHANGED rvars
    /\ UNCHANGED mvars
    /\ UNCHANGED xvars

SpecSchedule == InitSchedule /\ [][NextSchedule]_vars

----------------------------------------------------------------------------
(* The fallback mission from the path as it is stored: _call_gemini builds *)
(* available_problems from the categories of the current path, sorted by   *)
(* order, and their problems, sorted by order, leaving out the solved      *)
(* ones, and falls back to _fallback_mission.  Here path is the stored     *)
(* categories and calls the rest of the generation context                 *)

MaxFallbackReviews == 3

RECURSIVE InsertByOrder(_, _)
(* x put behind every element of the sorted list whose order is not higher *)
InsertByOrder(sorted, x) ==
    IF sorted = <<>> THEN <<x>>
    ELSE IF Head(sorted).order <= x.order
         THEN <<Head(sorted)>> \o InsertByOrder(Tail(sorted), x)
         ELSE <<x>> \o sorted

RECURSIVE SortByOrder(_, _)
(* sorted(items, key=order): stable *)
SortByOrder(sorted, rest) ==
    IF rest = <<>> THEN sorted
    ELSE SortByOrder(InsertByOrder(sorted, Head(rest)), Tail(rest))

RECURSIVE UnsolvedSlugs(_, _)
(* if prob["slug"] not in solved_set: available_problems.append(...) *)
UnsolvedSlugs(problems, solved_set) ==
    IF problems = <<>> THEN <<>>
    ELSE (IF Head(problems).slug \in solved_set THEN <<>>
          ELSE <<Head(problems).slug>>)
            \o UnsolvedSlugs(Tail(problems), solved_set)

RECURSIVE AvailableFrom(_, _)
AvailableFrom(categories, solved_set) ==
    IF categories = <<>> THEN <<>>
    ELSE UnsolvedSlugs(SortByOrder(<<>>, Head(categories).problems),
                       solved_set)
            \o AvailableFrom(Tail(categories), solved_set)

(* _call_gemini: available_problems *)
AvailableProblems(categories, solved_set) ==
    AvailableFrom(SortByOrder(<<>>, categories), solved_set)

(* generate_mission with the generator failing: the fallback mission as    *)
(* _build_mission_data lists it                                            *)
FallbackCall(kind) ==
    /\ ~mresp.ran
    /\ LET gemini_response ==
               CallGemini(kind, NoObject, <<>>,
                          AvailableProblems(path, calls.solved_problems),
                          calls.review_queue)
       IN  mresp' = [NoMissionResponse EXCEPT
                        !.op = "get", !.status = 200, !.ran = TRUE,
                        !.outcome = kind,
                        !.gemini_response = gemini_response,
                        !.problems = BuildProblems(
                                         RawProblems(gemini_response), 0),
                        !.daily_objective = gemini_response.daily_objective]

PathProblem(slug, order) == [slug |-> slug, order |-> order]

PathCategory(name, order, problems) ==
    [name |-> name, order |-> order, problems |-> problems]

(* The path: categories X (problems x1, x2, x3) and Y (problems y1, y2),   *)
(* stored in either order and with their problems stored in or out of      *)
(* order; up to MaxFallbackReviews due reviews, one of them of a path      *)
(* problem; any of x1, x2, y1 solved                                       *)
StoredPaths ==
    {<<cx, cy>> : cx \in {PathCategory("X", 1, ps) :
                             ps \in {<<PathProblem("x1", 1), PathProblem("x2", 2),
                                       PathProblem("x3", 3)>>,
                                     <<PathProblem("x3", 3), PathProblem("x1", 1),
                                       PathProblem("x2", 2)>>}},
                  cy \in {PathCategory("Y", 2, ps) :
                             ps \in {<<PathProblem("y1", 1), PathProblem("y2", 2)>>,
                                     <<PathProblem("y2", 2), PathProblem("y1", 1)>>}}}
    \cup
    {<<cy, cx>> : cx \in {PathCategory("X", 1, <<PathProblem("x2", 2),
                                                 PathProblem("x1", 1),
                                                 PathProblem("x3", 3)>>)},
                  cy \in {PathCategory("Y", 2, <<PathProblem("y1", 1),
                                                 PathProblem("y2", 2)>>)}}

ReviewOrder == <<"r2", "x2", "r1", "r3", "r4", "r5">>

ReviewLists ==
    {[i \in 1..n |-> [key |-> ReviewOrder[i + first - 1]]] :
        n \in 0..Min(MaxFallbackReviews, Len(ReviewOrder) - 1),
        first \in 1..2}

InitFallback ==
    /\ queue = {}
    /\ now = DueNow
    /\ nextId = 1
    /\ resp = NoResponse
    /\ RecIdle
    /\ mission = NoMission
    /\ mproblems = {}
    /\ path \in StoredPaths
    /\ runs = NoRuns
    /\ mresp = NoMissionResponse
    /\ \E review_queue \in ReviewLists, solved \in SUBSET {"x1", "x2", "y1"} :
          calls = [review_queue |-> review_queue, solved_problems |-> solved]
    /\ goals = {}
    /\ cache = NoCache
    /\ pace = NoPace

NextFallback ==
    /\ \E kind \in FallbackKinds : FallbackCall(kind)
    /\ UNCHANGED <<queue, now, nextId, resp>>
    /\ UNCHANGED rvars
    /\ UNCHANGED <<mission, mproblems, path, runs>>
    /\ UNCHANGED xvars

SpecFallback == InitFallback /\ [][NextFallback]_vars

----------------------------------------------------------------------------
(* Concurrent submits of a language attempt: submit_attempt and            *)
(* _update_language_track_progress, their store accesses interleaved.  The *)
(* api runs under gunicorn with several worker processes, and within one   *)
(* process the handler yields at the await of the grading, so the requests *)
(* of two calls interleave.  submit_attempt of system_design.py has the    *)
(* same steps on the system_design tables                                  *)

MaxSubmitCalls == 2

SubmitHandlers == 1..MaxSubmitCalls

(* The scores the grading service may give, below and above the pass score *)
Grades == {PassScore - 2, PassScore + 1}

(* A row of language_review_queue as the upsert of submit_attempt writes it *)
SubmitReview(user_id, topic, interval_days) ==
    [user_id |-> user_id, topic |-> topic, priority |-> 1,
     interval_days |-> interval_days]

(* A row of language_track_progress; average_score is counted in           *)
(* hundredths                                                              *)
ProgressRow(id, completed_topics, sessions_completed, average_score) ==
    [id |-> id, user_id |-> RecUser, track_id |-> LangTrack,
     completed_topics |-> completed_topics,
     sessions_completed |-> sessions_completed,
     average_score |-> average_score]

SubmitIdle ==
    [pc |-> "idle", attempt |-> LangAttempt(NoId, "", "", NoScore),
     score |-> NoScore, progress |-> {}, status |-> 0]

SubmitDone(h, status, score) ==
    calls' = [calls EXCEPT !.reqs[h] =
                 [@ EXCEPT !.pc = "done", !.status = status, !.score = score]]

(* The request arrives and reads the attempt with .single(), which raises  *)
(* when there is no such row: 500.  A graded attempt is answered with its  *)
(* stored grade                                                            *)
SubmitRead(h, attempt_id) ==
    /\ calls.reqs[h].pc = "idle"
    /\ LET rows == {a \in calls.attempts : a.id = attempt_id}
       IN  IF rows = {}
              THEN SubmitDone(h, 500, NoScore)
              ELSE LET attempt == CHOOSE a \in rows : TRUE
                   IN  IF attempt.status = "graded"
                          THEN SubmitDone(h, 200, attempt.score)
                          ELSE calls' = [calls EXCEPT !.reqs[h] =
                                            [@ EXCEPT !.pc = "grade",
                                                      !.attempt = attempt]]

(* await service.grade_exercise(...): the grading service answers *)
SubmitGrade(h, score) ==
    /\ calls.reqs[h].pc = "grade"
    /\ calls' = [calls EXCEPT !.reqs[h] =
                    [@ EXCEPT !.pc = "update", !.score = score]]

(* What follows the review queue step: the track progress when the attempt *)
(* has a track, the answer otherwise                                       *)
AfterReview(h) ==
    IF calls.reqs[h].attempt.track_id # NoId THEN "progress_read" ELSE "answer"

(* The attempt row is updated by id with the grade and status graded *)
SubmitUpdate(h) ==
    LET req == calls.reqs[h]
    IN  /\ req.pc = "update"
        /\ calls' = [calls EXCEPT
               !.attempts = {IF a.id = req.attempt.id
                                THEN [a EXCEPT !.status = "graded",
                                               !.score = req.score]
                                ELSE a : a \in calls.attempts},
               !.reqs[h] = [@ EXCEPT !.pc =
                               IF req.score < PassScore
                                  THEN "upsert" ELSE AfterReview(h)]]

(* With a score below 7 the topic is upserted into language_review_queue   *)
(* on conflict (user_id, topic), with priority 1 and interval_days 1       *)
SubmitUpsert(h) ==
    LET req == calls.reqs[h]
        kept == {r \in calls.reviews :
                    ~(r.user_id = req.attempt.user_id /\
                      r.topic = req.attempt.topic)}
    IN  /\ req.pc = "upsert"
        /\ calls' = [calls EXCEPT
               !.reviews = kept \cup {SubmitReview(req.attempt.user_id,
                                                   req.attempt.topic, 1)},
               !.reqs[h] = [@ EXCEPT !.pc = AfterReview(h)]]

(* _update_language_track_progress reads the progress of the user on the   *)
(* track, limit 1: any one of the rows there are                           *)
ProgressRead(h) ==
    LET req == calls.reqs[h]
        rows == {p \in calls.progress :
                    p.user_id = req.attempt.user_id /\
                    p.track_id = req.attempt.track_id}
    IN  /\ req.pc = "progress_read"
        /\ \E read \in (IF rows = {} THEN {{}} ELSE {{p} : p \in rows}) :
              calls' = [calls EXCEPT !.reqs[h] =
                           [@ EXCEPT !.pc = "progress_write",
                                     !.progress = read]]

(* new_avg = ((current_avg * (sessions - 1)) + score) / sessions, in       *)
(* hundredths                                                              *)
NewAvg(current_avg, sessions, score) ==
    ((current_avg * (sessions - 1)) + score * 100) \div sessions

(* The row read is updated by id from the values read; with no row read a  *)
(* first row is inserted.  Whether language_track_progress has a unique    *)
(* key on (user_id, track_id) is not in the repository: an insert that     *)
(* meets a row written meanwhile either adds a second row or raises, and   *)
(* the exception is printed and swallowed                                  *)
ProgressWrite(h) ==
    LET req == calls.reqs[h]
    IN  /\ req.pc = "progress_write"
        /\ IF req.progress # {}
              THEN LET progress == CHOOSE p \in req.progress : TRUE
                       sessions == progress.sessions_completed + 1
                   IN  calls' = [calls EXCEPT
                          !.progress =
                              {IF p.id = progress.id
                                  THEN [p EXCEPT
                                          !.completed_topics =
                                              progress.completed_topics \cup
                                                  {req.attempt.topic},
                                          !.sessions_completed = sessions,
                                          !.average_score =
                                              NewAvg(progress.average_score,
                                                     sessions, req.score)]
                                  ELSE p : p \in calls.progress},
                          !.reqs[h] = [@ EXCEPT !.pc = "answer"]]
              ELSE \E raises \in {r \in BOOLEAN : r => calls.progress # {}} :
                      calls' = [calls EXCEPT
                          !.progress =
                              IF raises THEN @
                              ELSE @ \cup
                                   {ProgressRow(Cardinality(calls.progress) + 1,
                                                {req.attempt.topic}, 1,
                                                req.score * 100)},
                          !.reqs[h] = [@ EXCEPT !.pc = "answer"]]

(* The grade of this request is returned *)
SubmitAnswer(h) ==
    /\ calls.reqs[h].pc = "answer"
    /\ SubmitDone(h, 200, calls.reqs[h].score)

(* The attempt of the first user: waiting or graded, on a track or not *)
SubmitAttempts ==
    {[LangAttempt(1, RecUser, status, IF status = "graded" THEN PassScore + 1
                                      ELSE NoScore)
         EXCEPT !.track_id = track_id] :
        status \in {"pending", "graded"}, track_id \in {LangTrack, NoId}}

(* The review queue: empty, or the topic with an interval grown by reviews *)
SubmitReviews == {{}, {SubmitReview(RecUser, LangTopic, 3)}}

(* The track progress: none, or one row of two sessions *)
SubmitProgress == {{}, {ProgressRow(1, {LangTopic}, 2, 600)}}

InitSubmit ==
    /\ queue = {}
    /\ now = DueNow
    /\ nextId = 1
    /\ resp = NoResponse
    /\ RecIdle
    /\ MissionIdle
    /\ \E attempt \in SubmitAttempts, reviews \in SubmitReviews,
          progress \in SubmitProgress :
          calls = [attempts |-> {attempt}, reviews |-> reviews,
                   progress |-> progress,
                   reqs |-> [h \in SubmitHandlers |-> SubmitIdle],
                   start |-> [attempt |-> attempt, reviews |-> reviews,
                              progress |-> progress]]
    /\ goals = {}
    /\ cache = NoCache
    /\ pace = NoPace

NextSubmit ==
    /\ \E h \in SubmitHandlers :
          \/ \E attempt_id \in 1..2 : SubmitRead(h, attempt_id)
          \/ \E score \in Grades : SubmitGrade(h, score)
          \/ SubmitUpdate(h)
          \/ SubmitUpsert(h)
          \/ ProgressRead(h)
          \/ ProgressWrite(h)
          \/ SubmitAnswer(h)
    /\ UNCHANGED <<queue, now, nextId, resp, goals, cache, pace>>
    /\ UNCHANGED rvars
    /\ UNCHANGED mvars

SpecSubmit == InitSubmit /\ [][NextSubmit]_vars

----------------------------------------------------------------------------
(* Claims about the interval model and the review queue *)

(* The step completed row r0 of the unprimed state into row r1 *)
Completes(r0, r1) ==
    /\ r0 \in queue
    /\ r1 \in queue'
    /\ r1.id = r0.id
    /\ resp'.op = "complete"
    /\ resp'.id = r0.id
    /\ r1.review_count = r0.review_count + 1

(* C1: every successful complete() sets interval_days to                   *)
(* min(2 * previous, 30): it never decreases and never exceeds 30, so the  *)
(* values met from 1 are 1, 2, 4, 8, 16, 30, 30, ...                       *)
C1_SuccessGrowsToCeiling ==
    [][\A r0 \in queue : \A r1 \in queue' :
          (Completes(r0, r1) /\ resp'.flag) =>
              /\ r1.interval_days = Min(2 * r0.interval_days, 30)
              /\ r1.interval_days >= r0.interval_days
              /\ r1.interval_days <= 30
              /\ r1.interval_days \in {2, 4, 8, 16, 30}]_vars

(* A successful completion of an item already at the ceiling *)
C1_Witness ==
    /\ resp.op = "complete" /\ resp.status = 200 /\ resp.flag
    /\ resp.before = 30
    /\ \E r \in queue : r.id = resp.id /\ r.interval_days = 30

(* C2: a complete() with success = false sets interval_days to 1 whatever  *)
(* it was before, the ceiling included.                                    *)
C2_FailureResetsToOne ==
    [][\A r0 \in queue : \A r1 \in queue' :
          (Completes(r0, r1) /\ ~resp'.flag) => r1.interval_days = 1]_vars

(* A failed completion of an item at the ceiling *)
C2_Witness ==
    /\ resp.op = "complete" /\ resp.status = 200 /\ ~resp.flag
    /\ resp.before = 30
    /\ \E r \in queue : r.id = resp.id /\ r.interval_days = 1

(* C7: re-flagging an existing (user_id, topic) through upsert leaves      *)
(* next_review, interval_days, review_count and last_reviewed as they      *)
(* were.                                                                   *)
C7_UpsertKeepsSchedule ==
    [][(resp'.op = "upsert" /\ resp'.flag) =>
          \A r0 \in queue : \A r1 \in queue' :
              (r0.id = resp'.id /\ r1.id = r0.id) =>
                  /\ r1.next_review = r0.next_review
                  /\ r1.interval_days = r0.interval_days
                  /\ r1.review_count = r0.review_count
                  /\ r1.last_reviewed = r0.last_reviewed]_vars

(* C8: at most one item per queue and (user_id, subject_key), in every     *)
(* state reached by upsert, manual add, complete and remove.               *)
C8_OneItemPerKey ==
    \A r1 \in queue : \A r2 \in queue :
        (r1.tbl = r2.tbl /\ r1.user_id = r2.user_id /\ r1.key = r2.key)
            => r1 = r2

(* A manual add of a key already queued was refused while a re-flagged     *)
(* topic is queued too                                                     *)
C8_Witness ==
    /\ resp.op = "add" /\ resp.status = 500 /\ resp.flag
    /\ \E r \in queue : r.tbl = TQ /\ r.reason = "r2" /\ r.review_count > 0
    /\ \E r \in queue : r.tbl = RQ

----------------------------------------------------------------------------
(* Claims about the due listings *)

NoRepeats(s) == \A i, j \in 1..Len(s) : i # j => s[i] # s[j]

IncludesFuture == resp.op = "due" /\ resp.flag

(* C9: due(user_id, limit, include_future=False) returns only that user's  *)
(* items with next_review <= now, at most limit of them; with              *)
(* include_future=True it returns the user's items whatever their          *)
(* next_review, the limit still applied.                                   *)

C9_DueFilterAndLimit ==
    resp.op \in {"due", "engine_due"} =>
        /\ \A i \in 1..Len(resp.items) :
              /\ resp.items[i] \in queue
              /\ resp.items[i].user_id = resp.user
              /\ ~IncludesFuture => resp.items[i].next_review <= now
        /\ NoRepeats(resp.items)
        /\ Len(resp.items) <= resp.limit
        /\ Len(resp.items) =
              Min(resp.limit,
                  Cardinality({r \in queue :
                      /\ r.user_id = resp.user
                      /\ IncludesFuture \/ r.next_review <= now}))

(* A preview that holds an item not yet due and is cut by the limit, with  *)
(* another user's item in the store                                        *)
C9_Witness ==
    /\ resp.op = "due" /\ resp.flag
    /\ \E i \in 1..Len(resp.items) : resp.items[i].next_review > now
    /\ Len(resp.items) = resp.limit
    /\ Cardinality(UserRows(resp.user)) > resp.limit
    /\ \E r \in queue : r.user_id # resp.user

(* C10: every due-review listing (reviews endpoint in both modes, the      *)
(* recommendation engine's query, the mission assembler's query) is        *)
(* ordered by priority descending and, among equal priorities, by          *)
(* next_review ascending, and a limit keeps the first items of that order. *)
C10_ListingsOrdered ==
    resp.op \in {"due", "engine_due", "mission_due"} =>
        /\ \A i, j \in 1..Len(resp.items) :
              i < j => ByPriorityThenNextReview(resp.items[i], resp.items[j])
        /\ \A r \in {x \in queue :
                      /\ x.user_id = resp.user
                      /\ IncludesFuture \/ x.next_review <= now} :
              \/ r \in SeqToSet(resp.items)
              \/ \A i \in 1..Len(resp.items) :
                    ByPriorityThenNextReview(resp.items[i], r)

----------------------------------------------------------------------------
(* Claims about the recommendations *)

(* C4: get_recommendations never returns two entries with the same         *)
(* problem_slug: a slug due for review that is also a weak-skill or        *)
(* progression candidate appears once, attributed to review_queue.         *)
C4_NoDuplicateSlug ==
    /\ \A i, j \in 1..Len(recs.items) :
          i # j => recs.items[i].problem_slug # recs.items[j].problem_slug
    /\ \A i \in 1..Len(recs.items) :
          (\E k \in 1..Len(recs.reviews) :
               recs.reviews[k].key = recs.items[i].problem_slug)
              => recs.items[i].source = "review_queue"

----------------------------------------------------------------------------
(* Claims about the daily missions *)

(* The step is a regenerate call *)
RegenerateCall == mresp'.tick # mresp.tick /\ mresp'.op = "regenerate"

(* The regenerate call of the step ran no generation, left the stored      *)
(* mission at regenerated_count = 3 as it was, returned it and reported    *)
(* can_regenerate = false                                                  *)
ReturnsExistingAtLimit ==
    /\ ~mresp'.ran
    /\ mresp'.status = 200
    /\ mission' = mission
    /\ mproblems' = mproblems
    /\ runs' = runs
    /\ mission.regenerated_count = 3
    /\ mresp'.regenerated_count = 3
    /\ mresp'.daily_objective = mission.daily_objective
    /\ mresp'.problems \in {MarkCompleted(x) : x \in ExistingProblems}
    /\ ~mresp'.can_regenerate

QuestsOnly ==
    /\ mresp.ran /\ mresp.outcome = "object"
    /\ Len(GetList(mresp.gemini_response, "problems")) = 0
    /\ Len(GetList(mresp.gemini_response, "main_quests")) > 0

(* The positions of the main_quests items that carry a slug *)
SlugPositions(quests) ==
    SelectSeq([i \in 1..Len(quests) |-> i],
              LAMBDA i : "slug" \in DOMAIN quests[i])

(* The returned problems are the persisted ones, in the order they were    *)
(* inserted                                                                *)
PersistedAsReturned ==
    /\ Cardinality(mproblems) = Len(mresp.problems)
    /\ \A k \in 1..Len(mresp.problems) :
          \E row \in mproblems :
              /\ row.pos = k
              /\ row.problem_id = mresp.problems[k].problem_id
              /\ row.priority = mresp.problems[k].priority
              /\ row.source = mresp.problems[k].source

C6_FallbackMissionUsable ==
    (mresp.ran /\ mresp.outcome \in FallbackKinds) =>
        /\ mresp.status = 200
        /\ mresp.problems # <<>>
        /\ \A i \in 1..Len(mresp.problems) :
              mresp.problems[i].source \in {"review", "path"}

----------------------------------------------------------------------------
(* Claims about errors and concurrency of the review queue *)

(* C11: complete(item_id, success) for an item id that does not exist      *)
(* fails with the distinct not-found error (HTTP 404), not with a success  *)
(* and not with the generic failure (HTTP 500), and changes no stored      *)
(* item.                                                                   *)
C11_MissingItemNotFound ==
    [][(resp' # resp /\ resp'.op = "complete" /\ RowById(resp'.id) = {}) =>
          /\ resp'.status = 404
          /\ queue' = queue]_vars

(* The requests that completed item id *)
CompletionsOf(id) == {h \in Handlers : calls.reqs[h].id = id}

(* C12: concurrent complete() calls on the same item serialize: the final  *)
(* item is the result of applying advance() once per call, one after the   *)
(* other, each advance computed from the interval the one before it wrote  *)
(* (review_count increased by the number of calls), never two advances     *)
(* from the same base.                                                     *)
C12_CompletionsSerialize ==
    AllDone =>
        \A r \in queue : \A r0 \in calls.start :
            r.id = r0.id =>
                LET hs == CompletionsOf(r.id)
                    n == Cardinality(hs)
                IN /\ r.review_count = r0.review_count + n
                   /\ \A k \in 1..n :
                         \E h \in hs :
                            /\ calls.reqs[h].rank = k
                            /\ calls.reqs[h].wrote =
                                  Advance(calls.reqs[h].success,
                                          calls.reqs[h].base)
                            /\ k = 1 => calls.reqs[h].base = r0.interval_days
                            /\ k > 1 =>
                                  \E g \in hs :
                                     /\ calls.reqs[g].rank = k - 1
                                     /\ calls.reqs[g].wrote = calls.reqs[h].base
                            /\ k = n => r.interval_days = calls.reqs[h].wrote
                   /\ \A h, g \in hs :
                         h # g => calls.reqs[h].rank # calls.reqs[g].rank

(* Two successful completions of the item that both arrived when its       *)
(* interval was 4 left it at 16 and reviewed twice more                    *)
C12_Witness ==
    /\ AllDone
    /\ \A h \in Handlers :
          /\ calls.reqs[h].id = 1 /\ calls.reqs[h].success
          /\ calls.reqs[h].snapshot = 4
    /\ \E r \in queue : r.id = 1 /\ r.interval_days = 16 /\ r.review_count = 3

----------------------------------------------------------------------------
(* Claims about concurrent mission requests *)

(* C13: under any interleaving of concurrent regenerate calls for one      *)
(* (user, date), generation is re-run and persisted at most 3 times in     *)
(* total after the initial creation, and regenerated_count never exceeds   *)
(* 3.                                                                      *)
C13_RegenerationCap ==
    /\ mission.regenerated_count <= 3
    /\ calls.start.regenerated_count + calls.saved <= 3

(* C14: there is at most one persisted daily_missions row per (user,       *)
(* date) after any interleaving of get and regenerate requests, two first  *)
(* requests that both find the mission absent included.                    *)
C14_OneMissionRow == calls.rows <= 1

(* Two requests both found no mission and both generated one; one of them  *)
(* inserted its row and the other was refused                              *)
C14_Witness ==
    /\ MissionsDone
    /\ ~calls.start.present
    /\ \A h \in MissionHandlers :
          ~calls.reqs[h].existing.present /\ calls.reqs[h].row.present
    /\ mresp.status = 500
    /\ calls.rows = 1
    /\ mission.present

----------------------------------------------------------------------------
(* Claims about reading a mission *)

(* The step is a plain get request *)
GetCall == mresp'.tick # mresp.tick /\ mresp'.op = "get"

(* C15: a plain get request for a (user, date) whose mission exists does   *)
(* not call the generator and leaves the persisted mission unchanged:      *)
(* objective, problems list, stored completed flags and regenerated_count  *)
(* are the same before and after.                                          *)
C15_GetLeavesMission ==
    [][(GetCall /\ mission.present) =>
          /\ ~mresp'.ran
          /\ mresp'.status = 200
          /\ mission' = mission
          /\ mproblems' = mproblems
          /\ mresp'.daily_objective = mission.daily_objective
          /\ mresp'.regenerated_count = mission.regenerated_count]_vars

(* A get returned the stored mission with a problem reported completed     *)
(* that is stored as not completed                                         *)
C15_Witness ==
    /\ mresp.op = "get" /\ ~mresp.ran /\ mresp.status = 200
    /\ mission.present
    /\ mission.regenerated_count > 0
    /\ \E i \in 1..Len(mresp.problems) : mresp.problems[i].completed
    /\ \A row \in mproblems : ~row.completed

(* C16: in every response of generate_mission can_regenerate is true       *)
(* exactly when the persisted regenerated_count is below 3; a mission that *)
(* has just been created (regenerated_count = 0), also by a regenerate     *)
(* call on an absent mission, reports can_regenerate = true.               *)
C16_CanRegenerate ==
    mresp.status = 200 =>
        /\ mission.present
        /\ mresp.regenerated_count = mission.regenerated_count
        /\ mresp.can_regenerate = (mission.regenerated_count < 3)
        /\ (mresp.ran /\ mission.regenerated_count = 0) => mresp.can_regenerate

(* A regenerate call on an absent mission created it *)
C16_Witness ==
    /\ mresp.op = "regenerate" /\ mresp.ran /\ mresp.status = 200
    /\ runs.regenerate = 1 /\ runs.existing = 0
    /\ mission.regenerated_count = 0
    /\ mresp.can_regenerate

----------------------------------------------------------------------------
(* Claims about pacing *)

(* 100 * cumulative / max(1, expected) is at least percent *)
PaceAtLeast(percent) ==
    100 * pace.cumulative_problems
        >= percent * Max(1, pace.result.expected_problems)

(* C19: calculate_pace_status classifies pace_percentage = cumulative /    *)
(* max(1, expected_problems) * 100 as ahead when >= 110, on_track when     *)
(* >= 90, behind when >= 70 and critical otherwise, each lower bound       *)
(* inclusive.                                                              *)
C19_PaceBands ==
    (pace.done /\ ~pace.result.error) =>
        /\ pace.result.status = "ahead" <=> PaceAtLeast(110)
        /\ pace.result.status = "on_track" <=>
              (PaceAtLeast(90) /\ ~PaceAtLeast(110))
        /\ pace.result.status = "behind" <=>
              (PaceAtLeast(70) /\ ~PaceAtLeast(90))
        /\ pace.result.status = "critical" <=> ~PaceAtLeast(70)

(* 11 problems solved of 10 expected, exactly 110 percent, is ahead *)
C19_Witness ==
    /\ pace.done /\ ~pace.result.error
    /\ pace.result.expected_problems = 10
    /\ pace.cumulative_problems = 11
    /\ pace.result.status = "ahead"

(* C20: calculate_pace_status produces a result and no error for every     *)
(* combination of started_at, target_deadline, today, weekly target and    *)
(* progress, a deadline at or before the start, a deadline already past    *)
(* and a zero weekly target included: days_elapsed and days_total are      *)
(* floored at 1 and days_remaining at 0.                                   *)
C20_PaceNeverFails ==
    pace.done =>
        /\ ~pace.result.error
        /\ pace.result.days_elapsed =
              Max(1, pace.today - pace.objective.started_at)
        /\ pace.result.days_total =
              Max(1, pace.objective.target_deadline
                        - pace.objective.started_at)
        /\ pace.result.days_remaining =
              Max(0, pace.objective.target_deadline - pace.today)
        /\ pace.result.days_elapsed >= 1
        /\ pace.result.days_total >= 1
        /\ pace.result.days_remaining >= 0

----------------------------------------------------------------------------
(* Claims about goals *)

(* C17: in every reachable state each user has at most one goal with       *)
(* status active, also when two creates for the same user run concurrently *)
C17_OneActiveGoal ==
    \A user_id \in GoalUsers : Cardinality(ActiveGoals(user_id)) <= 1

----------------------------------------------------------------------------
(* Claims about the dashboard cache *)

(* C18: after a mutating operation for a user, the next dashboard read for *)
(* that user does not return a cache entry computed before the mutation    *)
C18_DashboardNotStale ==
    (calls.last.op = "dashboard" /\ calls.last.hit) => calls.last.fresh

----------------------------------------------------------------------------
(* Claims about completion flags *)

AcceptedOn(slug, day) ==
    \E j \in 1..Len(subs.recent) :
        /\ subs.recent[j].problem_slug = slug
        /\ subs.recent[j].status = "Accepted"
        /\ subs.recent[j].submitted_at = day

(* C21: a mission problem is reported completed exactly when its           *)
(* problem_id is among the user's Accepted submissions recorded on the     *)
(* mission's mission_date, and the read writes no completed flag back to   *)
(* the stored mission problems                                             *)
C21_CompletedOnMissionDate ==
    calls.pc = "done" =>
        /\ \A i \in 1..Len(mresp.problems) :
              mresp.problems[i].completed
                  <=> AcceptedOn(mresp.problems[i].problem_id,
                                 calls.mission_date)
        /\ mproblems = calls.start

----------------------------------------------------------------------------
(* Claims about the assembled mission *)

(* C22: no problem_id appears twice in the problems list of an assembled   *)
(* mission, the fallback mission included                                  *)
C22_NoDuplicateProblem ==
    mresp.status = 200 =>
        \A i, j \in 1..Len(mresp.problems) :
            i # j => mresp.problems[i].problem_id # mresp.problems[j].problem_id

----------------------------------------------------------------------------
(* Claims about the order of the recommendations *)

(* C23: every review_queue entry of the list returned by                   *)
(* get_recommendations comes before every weak_skill entry and every       *)
(* progression entry                                                       *)
C23_ReviewsFirst ==
    \A i, j \in 1..Len(recs.items) :
        (/\ recs.items[i].source = "review_queue"
         /\ recs.items[j].source # "review_queue") => i < j

(* A review at the ceiling and a weak skill scored 0 meet at one priority *)
C23_Witness ==
    \E i, j \in 1..Len(recs.items) :
        /\ recs.items[i].source = "review_queue"
        /\ recs.items[j].source = "weak_skill"
        /\ recs.items[i].priority = recs.items[j].priority

SourceRank(source) ==
    CASE source = "review_queue" -> 1
      [] source = "weak_skill" -> 2
      [] source = "progression" -> 3

(* C26: the list returned by get_recommendations is sorted by priority     *)
(* descending, entries of equal priority keep the source order             *)
(* review_queue, weak_skill, progression, and it has at most limit entries *)
C26_SortedStableLimited ==
    /\ Len(recs.items) <= recs.limit
    /\ \A i, j \in 1..Len(recs.items) :
          i < j =>
             /\ recs.items[i].priority >= recs.items[j].priority
             /\ recs.items[i].priority = recs.items[j].priority
                   => SourceRank(recs.items[i].source)
                         <= SourceRank(recs.items[j].source)

(* A weak skill and a progression problem of one priority, in a list cut   *)
(* to the limit                                                            *)
C26_Witness ==
    /\ Len(recs.items) = recs.limit
    /\ \E i, j \in 1..Len(recs.items) :
          /\ recs.items[i].source = "weak_skill"
          /\ recs.items[j].source = "progression"
          /\ recs.items[i].priority = recs.items[j].priority

----------------------------------------------------------------------------
(* Claims about the skill gaps *)

(* The position of a domain in required_skills *)
InputPosition(domain) ==
    CHOOSE i \in 1..Len(pace.required_skills) :
        pace.required_skills[i].domain = domain

ExactGap(domain) ==
    Gap(pace.required_skills[InputPosition(domain)].target,
        CurrentScore(pace.current_scores, domain))

(* Every required domain once, with priorities 1..n in list order *)
RankedDomains ==
    /\ Len(pace.result) = Len(pace.required_skills)
    /\ \A i \in 1..Len(pace.required_skills) :
          \E k \in 1..Len(pace.result) :
              pace.result[k].domain = pace.required_skills[i].domain
    /\ \A k \in 1..Len(pace.result) : pace.result[k].priority = k

(* C24: calculate_skill_gaps gives every required domain                   *)
(* gap = max(0, target - current), current being 0 when the domain is      *)
(* unscored, orders the domains by gap descending keeping input order      *)
(* among equal gaps, and assigns priorities 1..n by that rank              *)
C24_GapsExact ==
    pace.done =>
        /\ RankedDomains
        /\ \A k \in 1..Len(pace.result) :
              pace.result[k].gap = ExactGap(pace.result[k].domain)
        /\ \A k, l \in 1..Len(pace.result) :
              k < l =>
                 \/ ExactGap(pace.result[k].domain)
                       > ExactGap(pace.result[l].domain)
                 \/ /\ ExactGap(pace.result[k].domain)
                          = ExactGap(pace.result[l].domain)
                    /\ InputPosition(pace.result[k].domain)
                          < InputPosition(pace.result[l].domain)

(* C24 as the code has it: the gap is max(0, target - current) rounded to  *)
(* one decimal, the domains are ordered by the rounded gap descending      *)
(* keeping input order among equal rounded gaps, and the priorities are    *)
(* 1..n by that rank                                                       *)
C24_GapsRounded ==
    pace.done =>
        /\ RankedDomains
        /\ \A k \in 1..Len(pace.result) :
              /\ pace.result[k].gap = Round1(ExactGap(pace.result[k].domain))
              /\ pace.result[k].gap >= 0
        /\ \A k, l \in 1..Len(pace.result) :
              k < l =>
                 \/ pace.result[k].gap > pace.result[l].gap
                 \/ /\ pace.result[k].gap = pace.result[l].gap
                    /\ InputPosition(pace.result[k].domain)
                          < InputPosition(pace.result[l].domain)

(* Two domains whose gaps differ and round to the same tenth *)
C24_Witness ==
    /\ pace.done
    /\ \E k, l \in 1..Len(pace.result) :
          /\ k < l
          /\ pace.result[k].gap = pace.result[l].gap
          /\ ExactGap(pace.result[k].domain) < ExactGap(pace.result[l].domain)

----------------------------------------------------------------------------
(* Claims about one completion *)

(* The step is a complete() call answered 200 *)
CompletesExisting ==
    /\ resp'.op = "complete"
    /\ resp'.status = 200
    /\ now' = now

(* C25: a complete(item_id, success) call on an existing item applies the  *)
(* interval model exactly once: next_review becomes now plus the new       *)
(* interval_days, review_count grows by exactly 1, last_reviewed becomes   *)
(* now, and no other item changes                                          *)
C25_CompleteAppliesOnce ==
    [][CompletesExisting =>
          \E r0 \in queue :
             /\ r0.id = resp'.id
             /\ queue' = (queue \ {r0}) \cup
                   {[r0 EXCEPT
                        !.interval_days = Advance(resp'.flag, r0.interval_days),
                        !.next_review = now + Advance(resp'.flag,
                                                      r0.interval_days),
                        !.review_count = r0.review_count + 1,
                        !.last_reviewed = now]}]_vars

(* A second completion of an item, after the clock moved, with another     *)
(* item in the queue                                                       *)
C25_Witness ==
    /\ resp.op = "complete" /\ resp.status = 200
    /\ now > 0
    /\ \E r \in queue :
          /\ r.id = resp.id
          /\ r.last_reviewed = now
          /\ r.review_count = 2
          /\ r.next_review = now + r.interval_days
    /\ \E r \in queue : r.id # resp.id

----------------------------------------------------------------------------
(* Claims about an item becoming due again *)

(* C28: immediately after a complete() call the item is not due, its       *)
(* next_review being strictly later than now, and with no further          *)
(* completion it is due again once at most 30 days have passed             *)
C28_NotDueThenDueAgain ==
    \A r \in queue :
        /\ (resp.op = "complete" /\ resp.id = r.id /\ now = r.last_reviewed)
              => ~IsDue(r)
        /\ now >= r.last_reviewed + 30 => IsDue(r)

(* The item completed at the ceiling, counted as due on the thirtieth day  *)
(* and not before                                                          *)
C28_Witness ==
    /\ resp.op = "count"
    /\ resp.limit = 1
    /\ \E r \in queue :
          /\ r.review_count >= 2
          /\ r.interval_days = 30
          /\ now = r.last_reviewed + 30
          /\ now = r.next_review

----------------------------------------------------------------------------
(* Claims about the fallback mission *)

(* The place of a path problem: the order of its category, then its own *)
PathPlace(slug) ==
    LET cat == CHOOSE c \in SeqToSet(path) :
                   \E p \in SeqToSet(c.problems) : p.slug = slug
        prob == CHOOSE p \in SeqToSet(cat.problems) : p.slug = slug
    IN  cat.order * 10 + prob.order

UnsolvedPathSlugs ==
    {p.slug : p \in UNION {SeqToSet(c.problems) : c \in SeqToSet(path)}}
        \ calls.solved_problems

FromReviews == Min(FallbackReviews, Len(calls.review_queue))

(* C27: the fallback mission takes at most 2 problems from the due         *)
(* reviews, in queue order, then the next unsolved path problems in        *)
(* category order and problem order until it holds 5 problems or the path  *)
(* is exhausted; it never holds more than 5 problems and its priorities    *)
(* are 1, 2, ..., n in list order                                          *)
C27_FallbackFill ==
    mresp.ran =>
        LET problems == mresp.problems
            n == Len(problems)
            listed == {problems[k].problem_id : k \in FromReviews + 1..n}
        IN  /\ n = Min(FallbackSize,
                       FromReviews + Cardinality(UnsolvedPathSlugs))
            /\ \A k \in 1..n : problems[k].priority = k
            /\ \A k \in 1..FromReviews :
                  /\ problems[k].source = "review"
                  /\ problems[k].problem_id = calls.review_queue[k].key
            /\ \A k \in FromReviews + 1..n :
                  /\ problems[k].source = "path"
                  /\ problems[k].problem_id \in UnsolvedPathSlugs
            /\ \A k, l \in FromReviews + 1..n :
                  k < l => PathPlace(problems[k].problem_id)
                              < PathPlace(problems[l].problem_id)
            /\ \A slug \in UnsolvedPathSlugs \ listed :
                  \A k \in FromReviews + 1..n :
                      PathPlace(problems[k].problem_id) < PathPlace(slug)

(* Three due reviews and five unsolved path problems stored out of order:  *)
(* two reviews and the first three path problems are taken                 *)
C27_Witness ==
    /\ mresp.ran
    /\ Len(calls.review_queue) = 3
    /\ calls.solved_problems = {}
    /\ path[1].order > path[2].order
    /\ Len(mresp.problems) = FallbackSize
    /\ mresp.problems[3].problem_id = "x1"
    /\ mresp.problems[5].problem_id = "x3"

----------------------------------------------------------------------------
(* Claims about a get that meets a regenerate *)

(* The problems lists a get may return whole: the stored one and those of  *)
(* the requests that generated a mission                                   *)
WholeLists ==
    {RowsToProblems(rows) :
        rows \in OrderLimit(StoredProblems, "priority",
                            Cardinality(StoredProblems))}
    \cup {calls.reqs[h].problems :
             h \in {g \in MissionHandlers : calls.reqs[g].pc # "idle"}}

(* C29: a plain get that runs concurrently with a regenerate for the same  *)
(* user and date never returns a mission with an empty problems list: it   *)
(* returns the complete old problems list or the complete new one          *)
C29_GetSeesWholeList ==
    (/\ calls.start.present
     /\ mresp.op = "get"
     /\ mresp.status = 200) =>
        /\ mresp.problems # <<>>
        /\ mresp.problems \in WholeLists

----------------------------------------------------------------------------
(* Claims about the submits of an attempt *)

RECURSIVE SumSessions(_)
SumSessions(rows) ==
    IF rows = {} THEN 0
    ELSE LET p == CHOOSE q \in rows : TRUE
         IN  p.sessions_completed + SumSessions(rows \ {p})

(* The submits that were answered with a grade *)
GradedAnswers ==
    {h \in SubmitHandlers :
        calls.reqs[h].pc = "done" /\ calls.reqs[h].status = 200}

(* C30: an attempt is graded at most once: every further submit,           *)
(* sequential or concurrent with the first, returns the stored grade and   *)
(* changes neither the attempt, nor the review queue, nor the track        *)
(* progress, so sessions_completed grows by at most 1 for the attempt and  *)
(* every grade answered is the one the attempt holds                       *)
C30_GradedOnce ==
    /\ SumSessions(calls.progress) <= SumSessions(calls.start.progress) + 1
    /\ \A h \in GradedAnswers :
          \A a \in calls.attempts : calls.reqs[h].score = a.score

====
